---- MODULE Spec2Model ----
(***************************************************************************)
(* Routing / configuration engine and multi-backend query executor of the *)
(* enhanced agent: enhanced_agent/src/mcp_config.py and                    *)
(* enhanced_agent/src/unified_mcp_client.py.                               *)
(*                                                                         *)
(* Text is modelled as a sequence of one-character strings where the code  *)
(* looks inside it (queries, routing topics) and as a sequence of message  *)
(* segments where the code only builds it and tests a prefix or a suffix   *)
(* (result strings, validation messages).                                  *)
(***************************************************************************)
EXTENDS Integers, Sequences, FiniteSets, TLC

\* ------------------------------------------------------------------ bounds
\* longest explicit server list handed to search()
MaxExplicit == 3
\* longest query text of the routing specification
MaxQueryLen == 1
\* longest server list of a routing rule or of fallback_servers
MaxRefs == 2
\* most servers of a raw configuration of the loading specification
MaxServers == 2
\* longest file content of the substitution specification
MaxContentLen == 6
\* gather_information calls that run concurrently on one integration
MaxGatherCalls == 2
\* search terms handed to one gather_information call
MaxTerms == 4

\* ------------------------------------------------------- program constants
\* UnifiedMCPClient.__init__: ThreadPoolExecutor(max_workers=4), the only
\* width the client configures
MaxWorkers == 4

None == "None"

VARIABLES config, phase, mode, query, servers_arg, server_list, tasks, result,
          adapter_log, selected, auto_pick, raw_config, load_result,
          content, environ, once, twice,
          user_query, analysis, external_info, step_cache, enable_step_cache,
          stage_runs, last_attempt,
          hints,
          sem_value, sem_waiters, gather_calls, search_outcome,
          invocations,
          servers_used

\* the variables of the substitution of ${VAR} placeholders
envVars == <<content, environ, once, twice>>

\* the variables of the research pipeline and its step cache
pipeVars == <<user_query, analysis, external_info, step_cache, enable_step_cache,
              stage_runs, last_attempt>>

\* the value get_routing_hints returned last
hintVars == <<hints>>

\* the semaphore of gather_information and the gather_information calls in progress
semVars == <<sem_value, sem_waiters, gather_calls, search_outcome>>

\* the process_research_query invocations in flight together on one integration
pairVars == <<invocations>>

\* metadata["servers_used"] of the result UnifiedDSPyMCPIntegration.research builds
researchVars == <<servers_used>>

vars == <<config, phase, mode, query, servers_arg, server_list, tasks, result,
          adapter_log, selected, auto_pick, raw_config, load_result, envVars, pipeVars,
          hintVars,
          semVars,
          pairVars,
          researchVars>>

\* ---------------------------------------------------------------- helpers
Range(s) == {s[i] : i \in 1..Len(s)}

SeqsUpTo(S, n) == UNION {[1..k -> S] : k \in 0..n}

RECURSIVE SelectSeqBy(_, _)
\* [x for x in s if x in keep]
SelectSeqBy(s, keep) ==
    IF s = <<>> THEN <<>>
    ELSE (IF Head(s) \in keep THEN <<Head(s)>> ELSE <<>>) \o SelectSeqBy(Tail(s), keep)

\* the list kept as it is, duplicates included
KeepDuplicates(s) == s

RECURSIVE DictFromKeys(_)
\* list(dict.fromkeys(s)): first occurrences, in order
DictFromKeys(s) ==
    IF s = <<>> THEN <<>>
    ELSE LET init == DictFromKeys(SubSeq(s, 1, Len(s) - 1))
             last == s[Len(s)]
         IN  IF last \in Range(init) THEN init ELSE Append(init, last)

\* ---------------------------------------------------- ${VAR} substitution
\* The file content is a sequence of characters; the environment sets at most
\* the variable A, environ saying whether it is set and to what.
NoEnviron == [set |-> FALSE, val |-> <<>>]

\* os.getenv(var_name)
os_getenv(env, var_name) == IF var_name = <<"A">> THEN env ELSE NoEnviron

RECURSIVE FirstClose(_, _)
\* where [^}]+ has to stop: the first "}" of s at or after i, 0 when there is none
FirstClose(s, i) ==
    IF i > Len(s) THEN 0 ELSE IF s[i] = "}" THEN i ELSE FirstClose(s, i + 1)

\* the last position of the match of \$\{([^}]+)\} that starts at i, 0 when
\* the pattern does not match there
MatchEnd(s, i) ==
    IF /\ i + 3 <= Len(s)
       /\ s[i] = "$"
       /\ s[i + 1] = "{"
       /\ FirstClose(s, i + 2) > i + 2
    THEN FirstClose(s, i + 2) ELSE 0

\* a replacer that writes the placeholder back without its "$"
replacer_no_dollar(env, var_name) ==
    IF ~os_getenv(env, var_name).set
    THEN <<"{">> \o var_name \o <<"}">>
    ELSE os_getenv(env, var_name).val

\* replacer(match)
replacer(env, var_name) ==
    IF ~os_getenv(env, var_name).set
    THEN <<"$", "{">> \o var_name \o <<"}">>
    ELSE os_getenv(env, var_name).val

RECURSIVE ReSub(_, _, _)
\* re.sub from position i on: the leftmost match is replaced and the scan
\* goes on behind it
ReSub(s, i, env) ==
    IF i > Len(s) THEN <<>>
    ELSE IF MatchEnd(s, i) = 0 THEN <<s[i]>> \o ReSub(s, i + 1, env)
    ELSE replacer(env, SubSeq(s, i + 2, MatchEnd(s, i) - 1))
         \o ReSub(s, MatchEnd(s, i) + 1, env)

_replace_env_vars(s, env) == ReSub(s, 1, env)

EnvUnused ==
    /\ content = <<>>
    /\ environ = NoEnviron
    /\ once = <<>>
    /\ twice = <<>>

\* ------------------------------------------- dspy_mcp_integration.py
\* cache_key = user_query[:100]
KeyLen == 100

\* user_query[:50] + "..." of the fallback defaults
TopicLen == 50

\* a Python value that may be None
Null == [some |-> FALSE, v |-> <<>>]

Some(x) == [some |-> TRUE, v |-> x]

\* a key that is the whole query
CacheKeyWhole(q) == q

\* user_query[:100]
CacheKey(q) == SubSeq(q, 1, IF Len(q) < KeyLen THEN Len(q) ELSE KeyLen)

\* the dict fallback_defaults (main_topic, query_type, search_terms of it)
fallback_defaults(q) ==
    [main_topic |-> IF Len(q) > TopicLen THEN SubSeq(q, 1, TopicLen) \o <<"...">> ELSE q,
     query_type |-> "general",
     search_terms |-> <<q>>]

\* self.quick_analyzer(user_query=user_query): the analysis of this query
quick_analyzer(q) ==
    [main_topic |-> <<"topic:">> \o q,
     query_type |-> "factual",
     search_terms |-> << <<"term:">> \o q >>]

\* analyze_query_structure: the analyzer's dict, or the defaults when the
\* analyzer raises; it raises nothing itself
analyze_query_structure(q, outcome) ==
    IF outcome = "ok" THEN quick_analyzer(q) ELSE fallback_defaults(q)

\* the text gather_information returns for the search terms
GatheredText(search_terms) == <<"info:">> \o search_terms[1]

\* a lookup that finds nothing
CachedGetMiss(cache, key, field) == Null

\* cached.get(field) of self._step_cache[cache_key], None without an entry
CachedGet(cache, key, field) ==
    IF key \in DOMAIN cache THEN cache[key][field] ELSE Null

\* an entry made before there is an analysis to put in it
PutAnalysisEmpty(cache, key, a) ==
    [k \in DOMAIN cache \cup {key} |->
        IF k = key THEN [analysis |-> Null, external_info |-> Null] ELSE cache[k]]

\* self._step_cache[cache_key] = {'analysis': analysis}
PutAnalysis(cache, key, a) ==
    [k \in DOMAIN cache \cup {key} |->
        IF k = key THEN [analysis |-> Some(a), external_info |-> Null] ELSE cache[k]]

\* an assignment that replaces the entry
PutGatheredAlone(cache, key, e) ==
    [k \in DOMAIN cache \cup {key} |->
        IF k = key THEN [analysis |-> Null, external_info |-> Some(e)] ELSE cache[k]]

\* self._step_cache[cache_key]['external_info'] = external_info
PutGathered(cache, key, e) ==
    [k \in DOMAIN cache |->
        IF k = key THEN [analysis |-> cache[k].analysis, external_info |-> Some(e)]
        ELSE cache[k]]

\* a completion that leaves the entry
ClearEntryNever(cache, key) == cache

\* del self._step_cache[cache_key]
ClearEntry(cache, key) == [k \in DOMAIN cache \ {key} |-> cache[k]]

\* dict.get(k, default)
get(d, k, default) == IF k \in DOMAIN d THEN d[k] ELSE default

\* a fallback that passes the step results on as they are
FallbackResultUnsafe(q, a, e) ==
    [kind |-> "fallback",
     main_topic |-> IF a.some THEN Some(a.v.main_topic) ELSE Null,
     query_type |-> IF a.some THEN Some(a.v.query_type) ELSE Null,
     search_terms |-> IF a.some THEN Some(a.v.search_terms) ELSE Null,
     external_info |-> e]

\* the ResearchPiplineResult of the except branch
FallbackResult(q, a, e) ==
    LET d == fallback_defaults(q)
        src == IF a.some THEN a.v ELSE d
    IN  [kind |-> "fallback",
         main_topic |-> Some(get(src, "main_topic", d.main_topic)),
         query_type |-> Some(get(src, "query_type", d.query_type)),
         search_terms |-> Some(get(src, "search_terms", d.search_terms)),
         external_info |-> Some(IF e.some THEN e.v ELSE <<>>)]

\* result = self.research_pipeline(user_query=..., external_info=...)
SynthesizedResult(q, e) ==
    [kind |-> "synthesized", user_query |-> q, external_info |-> Some(e)]

NoAttempt == [query |-> <<>>, kind |-> "none", done |-> {}]

\* the stages whose results the attempt holds
StagesDone(a, e) ==
    (IF a.some THEN {"analyze"} ELSE {}) \cup (IF e.some THEN {"gather"} ELSE {})

PipeUnused ==
    /\ user_query = <<>>
    /\ analysis = Null
    /\ external_info = Null
    /\ step_cache = [k \in {} |-> Null]
    /\ enable_step_cache = FALSE
    /\ stage_runs = <<>>
    /\ last_attempt = [k \in {} |-> NoAttempt]

\* research has reported nothing
ResearchUnused == servers_used = <<>>

\* an invocation of process_research_query that has not begun
NoInvocation == [pc |-> "idle", user_query |-> <<>>, analysis |-> Null,
                 external_info |-> Null, result |-> [kind |-> "none"],
                 failed |-> FALSE, overlapped |-> FALSE]

PairUnused == invocations = <<>>

\* a write that makes the entry when it is missing
KeyErrorNever(cache, key) == FALSE

\* self._step_cache[cache_key]['external_info'] = ... raises KeyError when the
\* entry of cache_key is not there
KeyError(cache, key) == key \notin DOMAIN cache

\* ------------------------------------- gather_information and its semaphore
\* self.config['max_mcp_queries']
MaxMcpQueries == 3

\* self.config['max_concurrent_queries'], the initial value of _mcp_semaphore
MaxConcurrentQueries == 3

\* max_queries = max_queries or self.config['max_mcp_queries'];
\* limited_terms = search_terms[:max_queries], here its length; max_queries 0
\* stands for None as well (both are false in 'or')
LimitedTerms(n_terms, max_queries) ==
    LET limit == IF max_queries = 0 THEN MaxMcpQueries ELSE max_queries
    IN  IF n_terms < limit THEN n_terms ELSE limit

\* a semaphore that never makes a caller wait
LockedNever(value, waiters) == FALSE

\* asyncio.Semaphore.locked(): no permit left, or someone is queued already
Locked(value, waiters) == value = 0 \/ waiters # <<>>

\* a release that is skipped when the search raised (release after the awaited
\* call, with no try/finally)
ReleasesUnlessRaise(outcome) == outcome # "raise"

\* 'async with self._mcp_semaphore': __aexit__ releases on every way out of the
\* block, a return as well as an exception
Releases(outcome) == TRUE

\* no gather_information call in progress
NoGather == [st |-> "idle", q |-> <<>>]

SemUnused ==
    /\ sem_value = 0
    /\ sem_waiters = <<>>
    /\ gather_calls = <<>>
    /\ search_outcome = "none"

\* ------------------------------------------------------------ mcp_config.py
ServerType == {"ollama", "web_search", "wikipedia", "wikidata", "dbpedia", "arxiv",
               "news", "github", "finance", "weather", "playwright"}

RoutingStrategy == {"auto", "manual", "multi"}

\* MCPConfig.servers is a dict: a sequence of ServerConfig records in insertion
\* order, the names distinct
ServerNames(cfg) == {cfg.servers[i].name : i \in 1..Len(cfg.servers)}

ServerGet(cfg, name) == cfg.servers[CHOOSE i \in 1..Len(cfg.servers) : cfg.servers[i].name = name]

\* name in self.config.servers and self.config.servers[name].enabled
EnabledNames(cfg) == {cfg.servers[i].name : i \in {j \in 1..Len(cfg.servers) : cfg.servers[j].enabled}}

\* UnifiedMCPClient.get_routing_hints: one record per entry of config.servers,
\* the rule table, the values of RoutingStrategy in declaration order, the
\* default strategy and the fallback list
get_routing_hints(cfg) ==
    [available_servers |->
         [i \in 1..Len(cfg.servers) |->
             [name |-> cfg.servers[i].name,
              type |-> cfg.servers[i].type,
              description |-> cfg.servers[i].description,
              capabilities |-> cfg.servers[i].capabilities,
              enabled |-> cfg.servers[i].enabled]],
     routing_rules |-> cfg.routing_rules,
     strategies |-> <<"auto", "manual", "multi">>,
     default_strategy |-> cfg.server_selection_strategy,
     fallback_servers |-> cfg.fallback_servers]

\* get_routing_hints has not been called
NoHints == [available_servers |-> <<>>, routing_rules |-> <<>>, strategies |-> <<>>,
            default_strategy |-> None, fallback_servers |-> <<>>]

HintsUnused == hints = NoHints

\* ------------------------------------------------ text of queries and topics
LowerChar(c) == IF c = "A" THEN "a" ELSE IF c = "B" THEN "b" ELSE c

\* str.lower()
Lower(s) == [i \in 1..Len(s) |-> LowerChar(s[i])]

\* topic.replace('_', ' ')
ReplaceUnderscore(s) == [i \in 1..Len(s) |-> IF s[i] = "_" THEN " " ELSE s[i]]

RECURSIVE SplitWords(_, _)
\* str.split(): the maximal runs of non-blank characters; cur is the run being read
SplitWords(s, cur) ==
    IF s = <<>> THEN (IF cur = <<>> THEN <<>> ELSE <<cur>>)
    ELSE IF Head(s) = " "
         THEN (IF cur = <<>> THEN <<>> ELSE <<cur>>) \o SplitWords(Tail(s), <<>>)
         ELSE SplitWords(Tail(s), Append(cur, Head(s)))

\* keywords = topic.replace('_', ' ').split()
Keywords(topic) == SplitWords(ReplaceUnderscore(topic), <<>>)

\* keyword in query_lower
IsSubstring(w, s) ==
    \E i \in 0..(Len(s) - Len(w)) : \A j \in 1..Len(w) : s[i + j] = w[j]

\* any(keyword in query_lower for keyword in keywords)
TopicMatches(topic, q) ==
    \E k \in 1..Len(Keywords(topic)) : IsSubstring(Keywords(topic)[k], Lower(q))

\* ------------------------------------------------------ routing (the Router)
RECURSIVE RuleServersListed(_, _, _)
\* a loop that appends what the matching rules list, enabled or not
RuleServersListed(cfg, rules, q) ==
    IF rules = <<>> THEN <<>>
    ELSE (IF TopicMatches(Head(rules).topic, q) THEN Head(rules).servers ELSE <<>>)
         \o RuleServersListed(cfg, Tail(rules), q)

RECURSIVE RuleServers(_, _, _)
\* the loop over routing_rules.items(): the enabled servers of the matching
\* rules, appended in rule order
RuleServers(cfg, rules, q) ==
    IF rules = <<>> THEN <<>>
    ELSE (IF TopicMatches(Head(rules).topic, q)
          THEN SelectSeqBy(Head(rules).servers, EnabledNames(cfg))
          ELSE <<>>) \o RuleServers(cfg, Tail(rules), q)

\* a selection that goes from the rules straight to the default server
_auto_select_servers_no_fallback(cfg, q) ==
    LET byRules == RuleServers(cfg, cfg.routing_rules, q)
    IN  DictFromKeys(IF byRules = <<>> THEN <<cfg.default_server>> ELSE byRules)

_auto_select_servers(cfg, q) ==
    LET byRules == RuleServers(cfg, cfg.routing_rules, q)
        byFallback == IF byRules = <<>>
                      THEN SelectSeqBy(cfg.fallback_servers, EnabledNames(cfg))
                      ELSE byRules
        byDefault == IF byFallback = <<>> THEN <<cfg.default_server>> ELSE byFallback
    IN  DictFromKeys(byDefault)

\* a choice that ignores the selection
_auto_select_server_default(cfg, q) == cfg.default_server

_auto_select_server(cfg, q) ==
    LET servers == _auto_select_servers(cfg, q)
    IN  IF servers # <<>> THEN servers[1] ELSE cfg.default_server

\* ---------------------------------------------------- result strings
StartsWithError(s) == Len(s) > 0 /\ s[1] = "Error:"

ErrNotFound(name) == <<"Error:", "Server", name, "not found in configuration">>

\* the message without its "Error:" prefix
ErrDisabledNoPrefix(name) == <<"Server", name, "is disabled">>

ErrDisabled(name) == <<"Error:", "Server", name, "is disabled">>

ErrNoHandler(type) == <<"Error:", "No handler for server type", type>>

\* f"Error: {str(e)}"
ErrException(msg) == <<"Error:">> \o msg

\* ------------------------------------------------------- adapters
\* the handlers table of _get_handler: every ServerType has a handler
_get_handler(type) == IF type \in ServerType THEN "_handle_" \o type ELSE None

HandlerOutcomes == {"ok", "timeout", "raise"}

\* What an adapter call ends with: its payload, the "Error: ..." string its own
\* except clause returns (a timeout, a transport failure), or an exception it
\* lets out.
HandlerResult(name, outcome) ==
    CASE outcome = "ok" -> [exc |-> FALSE, val |-> <<"payload", name>>]
      [] outcome = "timeout" -> [exc |-> FALSE, val |-> <<"Error:", "Timeout", name>>]
      [] outcome = "raise" -> [exc |-> TRUE, val |-> <<"boom", name>>]

\* the values of ServerConfig.api_key: not given, empty, an unresolved
\* placeholder, a key
ApiKeys == {None, "", "${KEY}", "secret"}

\* the handlers that begin with the api-key guard: _handle_news, _handle_weather
RequiresApiKey == {"news", "weather"}

\* not (not config.api_key or config.api_key.startswith("${"))
ApiKeyConfigured(key) == key \notin {None, "", "${KEY}"}

ErrNoKey(type) == <<"Error:", type, "API key not configured.">>

\* a handler without the guard: the request is issued whatever the key
HandlerEnterNoGuard(server) ==
    [st |-> "inflight", how |-> "adapter", res |-> [exc |-> FALSE, val |-> <<>>]]

\* a handler up to its first await: the guard returns at once, anything else
\* issues the request
HandlerEnter(server) ==
    IF server.type \in RequiresApiKey /\ ~ApiKeyConfigured(server.api_key)
    THEN [st |-> "done", how |-> "nokey",
          res |-> [exc |-> FALSE, val |-> ErrNoKey(server.type)]]
    ELSE [st |-> "inflight", how |-> "adapter", res |-> [exc |-> FALSE, val |-> <<>>]]

\* ------------------------------------------------------- the executor
\* the lookup without the enabled test: a disabled server reaches its adapter
_search_single_enter_unchecked(cfg, name) ==
    IF name \notin ServerNames(cfg)
    THEN [st |-> "done", how |-> "absent",
          res |-> [exc |-> FALSE, val |-> ErrNotFound(name)]]
    ELSE [st |-> "inflight", how |-> "adapter", res |-> [exc |-> FALSE, val |-> <<>>]]

\* _search_single before the adapter is awaited: the task either ends at once
\* with an error string or enters the adapter; how records the branch taken
_search_single_enter(cfg, name) ==
    IF name \notin ServerNames(cfg)
    THEN [st |-> "done", how |-> "absent",
          res |-> [exc |-> FALSE, val |-> ErrNotFound(name)]]
    ELSE IF ~ServerGet(cfg, name).enabled
    THEN [st |-> "done", how |-> "disabled",
          res |-> [exc |-> FALSE, val |-> ErrDisabled(name)]]
    ELSE IF _get_handler(ServerGet(cfg, name).type) = None
    THEN [st |-> "done", how |-> "nohandler",
          res |-> [exc |-> FALSE, val |-> ErrNoHandler(ServerGet(cfg, name).type)]]
    ELSE HandlerEnter(ServerGet(cfg, name))

\* _search_single around the adapter: try: return await handler(...)
\* except Exception as e: return f"Error: {str(e)}"
_search_single_leave(h) ==
    IF h.exc THEN [exc |-> FALSE, val |-> ErrException(h.val)] ELSE h

\* an assignment that moves an existing key to the end (pop, then insert)
DictSetMoveToEnd(d, k, v) ==
    LET IsOther(e) == e.k # k
    IN  Append(SelectSeq(d, IsOther), [k |-> k, v |-> v])

\* a dict as a sequence of [k, v] in insertion order; d[k] = v
DictSet(d, k, v) ==
    IF \E i \in 1..Len(d) : d[i].k = k
    THEN [i \in 1..Len(d) |-> IF d[i].k = k THEN [k |-> k, v |-> v] ELSE d[i]]
    ELSE Append(d, [k |-> k, v |-> v])

DictKeys(d) == [i \in 1..Len(d) |-> d[i].k]

DictGet(d, k) == d[CHOOSE i \in 1..Len(d) : d[i].k = k].v

RECURSIVE BuildResultDict(_)
\* the loop of _search_multiple over zip(server_names, results)
BuildResultDict(ts) ==
    IF ts = <<>> THEN <<>>
    ELSE LET last == ts[Len(ts)]
         IN  DictSet(BuildResultDict(SubSeq(ts, 1, Len(ts) - 1)), last.name,
                     IF last.res.exc THEN ErrException(last.res.val) ELSE last.res.val)

\* a wait that ends with the first task that ends
GatherDoneAny(ts) == ts = <<>> \/ \E i \in 1..Len(ts) : ts[i].st = "done"

\* await asyncio.gather(*tasks, return_exceptions=True): every task has ended
GatherDone(ts) == \A i \in 1..Len(ts) : ts[i].st = "done"

InFlight == Cardinality({i \in 1..Len(tasks) : tasks[i].st = "inflight"})

\* search called with servers=None
NoServers == [given |-> FALSE, list |-> <<>>]

NoResult == [kind |-> "none", val |-> <<>>]

\* the configuration the executor runs under
SearchServers ==
    << [name |-> "llm", type |-> "ollama", enabled |-> TRUE, api_key |-> None],
       [name |-> "web", type |-> "web_search", enabled |-> TRUE, api_key |-> None],
       [name |-> "archive", type |-> "wikipedia", enabled |-> FALSE, api_key |-> None],
       [name |-> "wiki", type |-> "wikidata", enabled |-> TRUE, api_key |-> None],
       [name |-> "arxiv", type |-> "arxiv", enabled |-> TRUE, api_key |-> None],
       [name |-> "news", type |-> "news", enabled |-> TRUE, api_key |-> "secret"] >>

SearchConfig(strategy) ==
    [servers |-> SearchServers,
     default_server |-> "llm",
     server_selection_strategy |-> strategy,
     fallback_servers |-> <<"archive", "llm">>,
     routing_rules |-> << [topic |-> <<"a", "_", "b">>,
                           servers |-> <<"web", "llm", "archive", "wiki", "arxiv", "news">>] >>]

\* names a caller may list: two enabled servers, a disabled one, an unknown one
ExplicitNames == {"llm", "web", "archive", "ghost"}

ExplicitLists == SeqsUpTo(ExplicitNames, MaxExplicit)

SearchQueries == {<<"A">>, <<"c">>}

NoConfig == [servers |-> <<>>, default_server |-> None,
             server_selection_strategy |-> "auto",
             fallback_servers |-> <<>>, routing_rules |-> <<>>]

NoLoad == [status |-> "none"]

Init ==
    /\ config \in {SearchConfig(s) : s \in RoutingStrategy}
    /\ phase = "idle"
    /\ mode = None
    /\ query = <<>>
    /\ servers_arg = NoServers
    /\ server_list = <<>>
    /\ tasks = <<>>
    /\ result = NoResult
    /\ adapter_log = <<>>
    /\ selected = <<>>
    /\ auto_pick = None
    /\ EnvUnused
    /\ PipeUnused
    /\ ResearchUnused
    /\ PairUnused
    /\ SemUnused
    /\ HintsUnused
    /\ raw_config = NoConfig
    /\ load_result = NoLoad

\* a selection that filters the explicit list to the enabled servers and falls
\* through to the default server
ServerListFiltered(cfg, q, given, servers, strat) ==
    IF given
    THEN (IF SelectSeqBy(servers, EnabledNames(cfg)) = <<>>
          THEN <<cfg.default_server>>
          ELSE SelectSeqBy(servers, EnabledNames(cfg)))
    ELSE IF strat = "auto" THEN <<_auto_select_server(cfg, q)>>
    ELSE IF strat = "multi" THEN _auto_select_servers(cfg, q)
    ELSE <<cfg.default_server>>

\* search(), "determine which servers to query": given says that the caller
\* passed a servers list (servers is not None)
ServerList(cfg, q, given, servers, strat) ==
    IF given THEN servers
    ELSE IF strat = "auto" THEN <<_auto_select_server(cfg, q)>>
    ELSE IF strat = "multi" THEN _auto_select_servers(cfg, q)
    ELSE <<cfg.default_server>>

\* search(): choose the servers, then start _search_single (one server) or
\* _search_multiple (any other number)
SearchCall(q, given, servers, strategy) ==
    LET strat == IF strategy = None THEN config.server_selection_strategy ELSE strategy
        list == ServerList(config, q, given, servers, strat)
    IN  /\ phase = "idle"
        /\ phase' = "running"
        /\ mode' = IF given THEN "manual"
                   ELSE IF strat = "auto" THEN "auto"
                   ELSE IF strat = "multi" THEN "multi" ELSE "default"
        /\ query' = q
        /\ server_list' = list
        /\ tasks' = [i \in 1..Len(list) |->
                        [name |-> list[i], st |-> "pending", how |-> "pending",
                         res |-> [exc |-> FALSE, val |-> <<>>]]]
        /\ servers_arg' = [given |-> given, list |-> servers]
        /\ UNCHANGED <<envVars, researchVars, pairVars, semVars, hintVars, pipeVars, config, result, adapter_log, selected, auto_pick,
                       raw_config, load_result>>

Search ==
    \E q \in SearchQueries, strategy \in RoutingStrategy \cup {None} :
        \/ \E servers \in ExplicitLists : SearchCall(q, TRUE, servers, strategy)
        \/ SearchCall(q, FALSE, <<>>, strategy)

\* the event loop runs the first step of the tasks in the order gather created
\* them: the next task runs _search_single up to its await of the adapter
TaskStart ==
    /\ phase = "running"
    /\ \E i \in 1..Len(tasks) :
        /\ tasks[i].st = "pending"
        /\ \A j \in 1..(i - 1) : tasks[j].st # "pending"
        /\ LET e == _search_single_enter(config, tasks[i].name)
           IN  /\ tasks' = [tasks EXCEPT ![i].st = e.st, ![i].how = e.how, ![i].res = e.res]
               /\ adapter_log' = IF e.st = "inflight"
                                 THEN Append(adapter_log, tasks[i].name)
                                 ELSE adapter_log
    /\ UNCHANGED <<envVars, researchVars, pairVars, semVars, hintVars, pipeVars, config, phase, mode, query, server_list, result,
                   selected, auto_pick, raw_config, load_result, servers_arg>>

\* an adapter call ends, in any order among the calls in flight
HandlerReturn ==
    /\ phase = "running"
    /\ \E i \in 1..Len(tasks), outcome \in HandlerOutcomes :
        /\ tasks[i].st = "inflight"
        /\ tasks' = [tasks EXCEPT ![i].st = "done", ![i].how = outcome,
                        ![i].res = _search_single_leave(HandlerResult(tasks[i].name, outcome))]
    /\ UNCHANGED <<envVars, researchVars, pairVars, semVars, hintVars, pipeVars, config, phase, mode, query, server_list, result, adapter_log,
                   selected, auto_pick, raw_config, load_result, servers_arg>>

\* search() returns: the bare result of the one task, or the dict
Return ==
    /\ phase = "running"
    /\ IF Len(server_list) = 1
       THEN /\ tasks[1].st = "done"
            /\ result' = IF tasks[1].res.exc
                         THEN [kind |-> "raise", val |-> tasks[1].res.val]
                         ELSE [kind |-> "str", val |-> tasks[1].res.val]
       ELSE /\ GatherDone(tasks)
            /\ result' = [kind |-> "dict", val |-> BuildResultDict(tasks)]
    /\ phase' = "returned"
    /\ UNCHANGED <<envVars, researchVars, pairVars, semVars, hintVars, pipeVars, config, mode, query, server_list, tasks, adapter_log,
                   selected, auto_pick, raw_config, load_result, servers_arg>>

\* the caller has the result; the client is ready for its next search
CallEnds ==
    /\ phase = "returned"
    /\ phase' = "idle"
    /\ mode' = None
    /\ query' = <<>>
    /\ server_list' = <<>>
    /\ tasks' = <<>>
    /\ result' = NoResult
    /\ adapter_log' = <<>>
    /\ servers_arg' = NoServers
    /\ UNCHANGED <<envVars, researchVars, pairVars, semVars, hintVars, pipeVars, config, selected, auto_pick, raw_config, load_result>>

Next == Search \/ TaskStart \/ HandlerReturn \/ Return \/ CallEnds

Spec == Init /\ [][Next]_vars

\* --------------------------------------------------- research specification
\* UnifiedDSPyMCPIntegration.research around the executor: the servers and the
\* strategy of the call go to UnifiedMCPClient.search as they are, and the
\* names research reports are worked out from what search returned.
\* unified_integration.py, "track which servers were actually used": the keys
\* of a dict; for a bare result the first name the caller listed, or else the
\* default server
ServersUsed(mcp_results, servers, cfg) ==
    IF mcp_results.kind = "dict" THEN DictKeys(mcp_results.val)
    ELSE IF servers.given /\ servers.list # <<>> THEN <<servers.list[1]>>
    ELSE <<cfg.default_server>>

\* research after 'await self.mcp_client.search(...)': metadata.servers_used
\* is set; an exception out of search leaves the initial []
Research ==
    /\ phase = "returned"
    /\ servers_used' = IF result.kind = "raise" THEN <<>>
                       ELSE ServersUsed(result, servers_arg, config)
    /\ phase' = "researched"
    /\ UNCHANGED <<envVars, pairVars, semVars, hintVars, pipeVars, config, mode, query,
                   server_list, tasks, result, adapter_log, selected, auto_pick,
                   raw_config, load_result, servers_arg>>

\* research has returned its result; the integration is ready for the next call
ResearchEnds ==
    /\ phase = "researched"
    /\ phase' = "idle"
    /\ mode' = None
    /\ query' = <<>>
    /\ server_list' = <<>>
    /\ tasks' = <<>>
    /\ result' = NoResult
    /\ adapter_log' = <<>>
    /\ servers_arg' = NoServers
    /\ servers_used' = <<>>
    /\ UNCHANGED <<envVars, pairVars, semVars, hintVars, pipeVars, config, selected,
                   auto_pick, raw_config, load_result>>

NextResearch == Search \/ TaskStart \/ HandlerReturn \/ Return \/ Research \/ ResearchEnds

SpecResearch == Init /\ [][NextResearch]_vars

\* ------------------------------------------------- cancellation specification
\* The executor with one more event: a task that gather created is cancelled
\* while its adapter call is in flight.
\* The CancelledError instance gather(return_exceptions=True) puts in the slot
\* of a cancelled task: an object, not a string
CancelledError == <<"<CancelledError>">>

\* CancelledError derives from BaseException: 'except Exception' in
\* _search_single lets it pass, the task ends cancelled, the other tasks of the
\* gather go on, and isinstance(result, Exception) is False for its slot
HandlerCancelled ==
    /\ phase = "running"
    /\ Len(server_list) # 1
    /\ \E i \in 1..Len(tasks) :
        /\ tasks[i].st = "inflight"
        /\ tasks' = [tasks EXCEPT ![i].st = "done", ![i].how = "cancelled",
                        ![i].res = [exc |-> FALSE, val |-> CancelledError]]
    /\ UNCHANGED <<envVars, researchVars, pairVars, semVars, hintVars, pipeVars, config, phase, mode, query, server_list, result,
                   adapter_log, selected, auto_pick, raw_config, load_result, servers_arg>>

NextCancel == Search \/ TaskStart \/ HandlerReturn \/ HandlerCancelled \/ Return \/ CallEnds

SpecCancel == Init /\ [][NextCancel]_vars

\* ------------------------------------------------------ adapter specification
\* One configured server of any kind with any api_key; it is searched by name
\* and as the default server.
InitAdapter ==
    /\ \E t \in ServerType, k \in ApiKeys, e \in BOOLEAN :
          config = [servers |-> << [name |-> t, type |-> t, enabled |-> e, api_key |-> k] >>,
                    default_server |-> t,
                    server_selection_strategy |-> "auto",
                    fallback_servers |-> <<>>,
                    routing_rules |-> <<>>]
    /\ phase = "idle"
    /\ mode = None
    /\ query = <<>>
    /\ servers_arg = NoServers
    /\ server_list = <<>>
    /\ tasks = <<>>
    /\ result = NoResult
    /\ adapter_log = <<>>
    /\ selected = <<>>
    /\ auto_pick = None
    /\ EnvUnused
    /\ PipeUnused
    /\ ResearchUnused
    /\ PairUnused
    /\ SemUnused
    /\ HintsUnused
    /\ raw_config = NoConfig
    /\ load_result = NoLoad

\* search(query, servers=[name]) and search(query) of the one server
SearchOne ==
    \E q \in SearchQueries :
        \/ SearchCall(q, TRUE, <<config.default_server>>, None)
        \/ SearchCall(q, FALSE, <<>>, None)

NextAdapter == SearchOne \/ TaskStart \/ HandlerReturn \/ Return \/ CallEnds

SpecAdapter == InitAdapter /\ [][NextAdapter]_vars

\* ------------------------------------------------------ routing specification
\* Configurations over two servers, each enabled, disabled or not configured
\* (an MCPConfig handed to the client need not have passed the loader), and
\* queries over a small alphabet; the Router's two functions are applied.
RouteNames == {"llm", "web"}

RouteTypes == [llm |-> "ollama", web |-> "web_search"]

RouteServers(status) ==
    (IF status["llm"] = "absent" THEN <<>>
     ELSE << [name |-> "llm", type |-> RouteTypes["llm"], enabled |-> status["llm"] = "enabled",
              description |-> "local model", capabilities |-> <<"chat">>] >>)
    \o
    (IF status["web"] = "absent" THEN <<>>
     ELSE << [name |-> "web", type |-> RouteTypes["web"], enabled |-> status["web"] = "enabled",
              description |-> "web search", capabilities |-> <<"search", "news">>] >>)

\* topics "a_b" (keywords a, b) and "_b" (keyword b)
Topics == {<<"a", "_", "b">>, <<"_", "b">>}

RefLists == SeqsUpTo(RouteNames, MaxRefs)

\* routing_rules is a dict: the topics of a table are distinct
RuleTables ==
    {t \in SeqsUpTo([topic : Topics, servers : RefLists], Cardinality(Topics)) :
        \A i, j \in 1..Len(t) : i # j => t[i].topic # t[j].topic}

RouteQueries == SeqsUpTo({"a", "B"}, MaxQueryLen)

InitRoute ==
    /\ \E status \in [RouteNames -> {"enabled", "disabled", "absent"}],
          fb \in RefLists, rules \in RuleTables :
          config = [servers |-> RouteServers(status),
                    default_server |-> "llm",
                    server_selection_strategy |-> "auto",
                    fallback_servers |-> fb,
                    routing_rules |-> rules]
    /\ phase = "idle"
    /\ mode = None
    /\ query = <<>>
    /\ servers_arg = NoServers
    /\ server_list = <<>>
    /\ tasks = <<>>
    /\ result = NoResult
    /\ adapter_log = <<>>
    /\ selected = <<>>
    /\ auto_pick = None
    /\ EnvUnused
    /\ PipeUnused
    /\ ResearchUnused
    /\ PairUnused
    /\ SemUnused
    /\ HintsUnused
    /\ raw_config = NoConfig
    /\ load_result = NoLoad

\* _auto_select_servers(query)
AutoSelectServers ==
    /\ phase = "idle"
    /\ \E q \in RouteQueries :
        /\ query' = q
        /\ selected' = _auto_select_servers(config, q)
    /\ phase' = "multi"
    /\ UNCHANGED <<envVars, researchVars, pairVars, semVars, hintVars, pipeVars, config, mode, server_list, tasks, result, adapter_log,
                   auto_pick, raw_config, load_result, servers_arg>>

\* _auto_select_server(query), for the query of the multi selection
AutoSelectServer ==
    /\ phase = "multi"
    /\ auto_pick' = _auto_select_server(config, query)
    /\ phase' = "auto"
    /\ UNCHANGED <<envVars, researchVars, pairVars, semVars, hintVars, pipeVars, config, mode, query, server_list, tasks, result, adapter_log,
                   selected, raw_config, load_result, servers_arg>>

\* get_routing_hints(), callable at any point
GetRoutingHints ==
    /\ hints = NoHints
    /\ hints' = get_routing_hints(config)
    /\ UNCHANGED <<envVars, researchVars, pairVars, semVars, pipeVars, config, phase, mode, query, server_list, tasks,
                   result, adapter_log, selected, auto_pick, raw_config, load_result,
                   servers_arg>>

NextRoute == AutoSelectServers \/ AutoSelectServer \/ GetRoutingHints

SpecRoute == InitRoute /\ [][NextRoute]_vars

\* ------------------------------------------------------ loading specification
\* A raw configuration is the parsed JSON: servers is a dict (a sequence of
\* [name, data] in file order, the names distinct); an absent key is None.
\* A validation message is the sequence of its text segments.
WeirdName == "x may not work correctly."

LoadNames == {"ollama", "llama-mcp", WeirdName}

\* str.endswith("may not work correctly.") of a message, decided on its last
\* segment: of the texts a message of this model can end with, these two do
EndsWithMayNotWork(msg) ==
    msg # <<>> /\ msg[Len(msg)] \in {"This server may not work correctly.", WeirdName}

\* an enum lookup that accepts any value
IsServerTypeAny(v) == TRUE

\* ServerType(value) does not raise ValueError
IsServerType(v) == v \in ServerType

\* api_key and api_key.startswith("${") and api_key.endswith("}")
IsPlaceholder(key) == key = "${KEY}"

\* config.get("type", name)
KindOf(name, data) == IF data.type = None THEN name ELSE data.type

\* The value of a numeric field of the JSON: kind says what it is, v carries
\* the number (a float stands for v + 0.5, a value no integer equals).
Absent == [kind |-> "absent", v |-> 0]

IntVal(n) == [kind |-> "int", v |-> n]

FloatVal(n) == [kind |-> "float", v |-> n]

StrVal == [kind |-> "str", v |-> 0]

\* isinstance(value, (int, float))
IsNumber(x) == x.kind \in {"int", "float"}

\* value < 0
IsNegative(x) == x.v < 0

\* 0 <= value <= 2
TemperatureInRange(x) ==
    IF x.kind = "int" THEN 0 <= x.v /\ x.v <= 2 ELSE 0 <= x.v /\ x.v <= 1

\* one round of the loop "Validate numeric fields"
NumericError(name, field, x) ==
    IF x.kind = "absent" THEN <<>>
    ELSE IF ~IsNumber(x) THEN << <<"Server", name, field, "must be a number">> >>
    ELSE IF field = "temperature" /\ ~TemperatureInRange(x)
    THEN << <<"Server", name, "temperature should be between 0 and 2">> >>
    ELSE IF field \in {"timeout", "max_tokens", "context_length", "max_results"}
            /\ IsNegative(x)
    THEN << <<"Server", name, field, "must be non-negative">> >>
    ELSE <<>>

_validate_server_config(name, data) ==
    (IF ~data.has_url
     THEN << <<"Server", name, "missing required field 'url'">> >> ELSE <<>>)
    \o
    (IF ~IsServerType(KindOf(name, data))
     THEN << <<"Server", name, "invalid type", KindOf(name, data), "Valid types:", "playwright">> >>
     ELSE <<>>)
    \o
    (IF data.api_key # None /\ IsPlaceholder(data.api_key)
     THEN << <<"Server", name, "API key environment variable", "KEY", "is not set.",
               "This server may not work correctly.">> >>
     ELSE <<>>)
    \o NumericError(name, "timeout", data.timeout)
    \o NumericError(name, "max_tokens", data.max_tokens)
    \o NumericError(name, "temperature", data.temperature)
    \o NumericError(name, "context_length", data.context_length)
    \o NumericError(name, "max_results", data.max_results)

\* ServerConfig.from_dict: the ServerConfig, or the text of the exception
\* (ValueError of the enum first, then KeyError of data["url"])
from_dict(name, data) ==
    IF ~IsServerType(KindOf(name, data))
    THEN [ok |-> FALSE, err |-> "is not a valid ServerType"]
    ELSE IF ~data.has_url
    THEN [ok |-> FALSE, err |-> "'url'"]
    ELSE [ok |-> TRUE,
          cfg |-> [name |-> name, type |-> KindOf(name, data),
                   enabled |-> TRUE, api_key |-> data.api_key,
                   timeout |-> IF data.timeout = Absent THEN IntVal(30) ELSE data.timeout,
                   max_tokens |-> data.max_tokens,
                   temperature |-> data.temperature,
                   context_length |-> data.context_length,
                   max_results |-> data.max_results]]

RECURSIVE ServerErrors(_)
\* the errors the loop over raw_config["servers"] collects
ServerErrors(entries) ==
    IF entries = <<>> THEN <<>>
    ELSE LET e == Head(entries)
             p == from_dict(e.name, e.data)
         IN  _validate_server_config(e.name, e.data)
             \o (IF p.ok THEN <<>>
                 ELSE << <<"Server", e.name, "failed to parse config:", p.err>> >>)
             \o ServerErrors(Tail(entries))

RECURSIVE ParsedServers(_)
\* the servers dict the loop builds: the entries from_dict accepted
ParsedServers(entries) ==
    IF entries = <<>> THEN <<>>
    ELSE LET e == Head(entries)
             p == from_dict(e.name, e.data)
         IN  (IF p.ok THEN <<p.cfg>> ELSE <<>>) \o ParsedServers(Tail(entries))

RECURSIVE RefErrors(_, _, _)
\* one message for every name of refs that is not in servers
RefErrors(refs, names, prefix) ==
    IF refs = <<>> THEN <<>>
    ELSE (IF Head(refs) \notin names
          THEN << prefix \o <<Head(refs), "not found in servers list">> >> ELSE <<>>)
         \o RefErrors(Tail(refs), names, prefix)

RECURSIVE RuleErrors(_, _)
RuleErrors(rules, names) ==
    IF rules = <<>> THEN <<>>
    ELSE RefErrors(Head(rules).servers, names, <<"Routing rule", Head(rules).topic, "server">>)
         \o RuleErrors(Tail(rules), names)

\* [e for e in errors if not e.endswith("may not work correctly.")]
CriticalErrors(errors) ==
    SelectSeq(errors, LAMBDA e : ~EndsWithMayNotWork(e))

\* [e for e in errors if e.endswith("may not work correctly.")]
Warnings(errors) ==
    SelectSeq(errors, LAMBDA e : EndsWithMayNotWork(e))

\* _parse_config: ValueError with the critical errors, or the MCPConfig
_parse_config(raw) ==
    IF ~raw.has_servers
    THEN [status |-> "error", errors |-> << <<"Missing required field 'servers'">> >>]
    ELSE
    LET servers == ParsedServers(raw.servers)
        names == {servers[i].name : i \in 1..Len(servers)}
        default_server == IF raw.default_server = None THEN "llama-mcp"
                          ELSE raw.default_server
        strategy_str == IF raw.server_selection_strategy = None THEN "auto"
                        ELSE raw.server_selection_strategy
        errors ==
            ServerErrors(raw.servers)
            \o (IF default_server \notin names
                THEN << <<"default_server", default_server, "not found in servers list.",
                          "Available servers:",
                          IF servers = <<>> THEN "" ELSE servers[Len(servers)].name>> >>
                ELSE <<>>)
            \o (IF strategy_str \notin RoutingStrategy
                THEN << <<"Invalid server_selection_strategy", strategy_str,
                          "Valid values:", "auto, manual, multi">> >>
                ELSE <<>>)
            \o RefErrors(raw.fallback_servers, names, <<"Fallback server">>)
            \o RuleErrors(raw.routing_rules, names)
    IN  IF CriticalErrors(errors) # <<>>
        THEN [status |-> "error", errors |-> CriticalErrors(errors)]
        ELSE [status |-> "ok",
              warnings |-> Warnings(errors),
              config |-> [servers |-> servers,
                          default_server |-> default_server,
                          server_selection_strategy |->
                              IF strategy_str \in RoutingStrategy THEN strategy_str
                              ELSE "auto",
                          fallback_servers |-> raw.fallback_servers,
                          routing_rules |-> raw.routing_rules]]

\* the raw configurations loaded
RawData ==
    [type : {None, "ollama", "bogus"}, has_url : BOOLEAN, api_key : {None, "${KEY}"},
     timeout : {Absent}, max_tokens : {Absent}, temperature : {Absent},
     context_length : {Absent}, max_results : {Absent}]

RawServers ==
    {t \in SeqsUpTo([name : LoadNames, data : RawData], MaxServers) :
        \A i, j \in 1..Len(t) : i # j => t[i].name # t[j].name}

RawRefs == {<<>>, <<"ollama">>, <<"llama-mcp">>}

RawRules == {<<>>} \cup {<<[topic |-> <<"a">>, servers |-> r]>> : r \in RawRefs}

RawConfigs ==
    [has_servers : {TRUE}, servers : RawServers, default_server : {None, "ollama"},
     server_selection_strategy : {None},
     fallback_servers : RawRefs, routing_rules : RawRules]
    \cup
    {[has_servers |-> FALSE, servers |-> <<>>, default_server |-> "ollama",
      server_selection_strategy |-> None,
      fallback_servers |-> <<>>, routing_rules |-> <<>>]}

InitLoad ==
    /\ raw_config \in RawConfigs
    /\ load_result = NoLoad
    /\ config = NoConfig
    /\ phase = "idle"
    /\ mode = None
    /\ query = <<>>
    /\ servers_arg = NoServers
    /\ server_list = <<>>
    /\ tasks = <<>>
    /\ result = NoResult
    /\ adapter_log = <<>>
    /\ selected = <<>>
    /\ auto_pick = None
    /\ EnvUnused
    /\ PipeUnused
    /\ ResearchUnused
    /\ PairUnused
    /\ SemUnused
    /\ HintsUnused

\* MCPConfigLoader._parse_config(raw_config)
ParseConfig ==
    /\ phase = "idle"
    /\ load_result' = _parse_config(raw_config)
    /\ config' = IF _parse_config(raw_config).status = "ok"
                 THEN _parse_config(raw_config).config ELSE config
    /\ phase' = "loaded"
    /\ UNCHANGED <<envVars, researchVars, pairVars, semVars, hintVars, pipeVars, mode, query, server_list, tasks, result, adapter_log,
                   selected, auto_pick, raw_config, servers_arg>>

NextLoad == ParseConfig

SpecLoad == InitLoad /\ [][NextLoad]_vars

\* --------------------------------------------------- validating specification
\* Raw configurations whose servers carry numeric fields and whose strategy
\* is drawn too; the loader is the same.
ValidateNames == {"ollama", WeirdName}

\* the numeric fields of one server: at most one of them is present
NumericProfiles ==
    {[timeout |-> t, max_tokens |-> Absent, temperature |-> Absent,
      context_length |-> Absent, max_results |-> Absent] :
        t \in {Absent, IntVal(30), IntVal(0), IntVal(-1), FloatVal(1), StrVal}}
    \cup
    {[timeout |-> Absent, max_tokens |-> m, temperature |-> Absent,
      context_length |-> Absent, max_results |-> Absent] : m \in {IntVal(5), IntVal(-1)}}
    \cup
    {[timeout |-> Absent, max_tokens |-> Absent, temperature |-> IntVal(3),
      context_length |-> Absent, max_results |-> Absent],
     [timeout |-> Absent, max_tokens |-> Absent, temperature |-> Absent,
      context_length |-> IntVal(-1), max_results |-> Absent],
     [timeout |-> Absent, max_tokens |-> Absent, temperature |-> Absent,
      context_length |-> Absent, max_results |-> IntVal(-1)]}

ValidateData ==
    {[type |-> t, has_url |-> u, api_key |-> k,
      timeout |-> p.timeout, max_tokens |-> p.max_tokens, temperature |-> p.temperature,
      context_length |-> p.context_length, max_results |-> p.max_results] :
        t \in {None, "ollama", "bogus"}, u \in BOOLEAN, k \in {None, "${KEY}"},
        p \in NumericProfiles}

ValidateServers ==
    {t \in SeqsUpTo([name : ValidateNames, data : ValidateData], MaxServers) :
        \A i, j \in 1..Len(t) : i # j => t[i].name # t[j].name}

ValidateConfigs ==
    [has_servers : {TRUE}, servers : ValidateServers, default_server : {None, "ollama"},
     server_selection_strategy : {None, "multi", "bogus"},
     fallback_servers : {<<>>, <<"llama-mcp">>}, routing_rules : {<<>>}]

InitValidate ==
    /\ raw_config \in ValidateConfigs
    /\ load_result = NoLoad
    /\ config = NoConfig
    /\ phase = "idle"
    /\ mode = None
    /\ query = <<>>
    /\ servers_arg = NoServers
    /\ server_list = <<>>
    /\ tasks = <<>>
    /\ result = NoResult
    /\ adapter_log = <<>>
    /\ selected = <<>>
    /\ auto_pick = None
    /\ EnvUnused
    /\ PipeUnused
    /\ ResearchUnused
    /\ PairUnused
    /\ SemUnused
    /\ HintsUnused

SpecValidate == InitValidate /\ [][NextLoad]_vars

\* ------------------------------------------------- the executor's properties
Multiple == Len(server_list) # 1

\* the index of the last task of a name: the one whose result the dict keeps
IsLastOf(i) == \A j \in (i + 1)..Len(tasks) : tasks[j].name # tasks[i].name

Failed(i) == tasks[i].how \in {"absent", "disabled", "nohandler", "timeout", "raise"}

\* C1: during a multi-backend search the number of adapter invocations in
\* flight at the same time never exceeds the concurrency limit, however many
\* backends are requested.
C1_InFlightWithinLimit ==
    (phase = "running" /\ Multiple) => InFlight <= MaxWorkers

\* C2 as stated: _search_multiple over a list of n names returns a mapping of
\* exactly n entries, and only after all n invocations have finished.
C2_ExactlyNEntries ==
    (phase = "returned" /\ Multiple) =>
        /\ result.kind = "dict"
        /\ Len(result.val) = Len(server_list)
        /\ \A i \in 1..Len(tasks) : tasks[i].st = "done"

\* C2 amended: _search_multiple over a list of n names returns a mapping with
\* exactly one entry for each distinct name of the list (n entries when the
\* names are distinct), whatever number of invocations fail, and only after
\* all n invocations have finished.
C2_OneEntryPerName ==
    (phase = "returned" /\ Multiple) =>
        /\ result.kind = "dict"
        /\ Len(result.val) = Cardinality(Range(server_list))
        /\ Range(DictKeys(result.val)) = Range(server_list)
        /\ Len(tasks) = Len(server_list)
        /\ \A i \in 1..Len(tasks) : tasks[i].st = "done" /\ tasks[i].name = server_list[i]

C2_Witness ==
    /\ phase = "returned"
    /\ Len(server_list) = 3
    /\ Len(result.val) = 3
    /\ \E i \in 1..3 : tasks[i].how = "raise"
    /\ \E i \in 1..3 : tasks[i].how = "ok"

\* C3: in a multi-backend search a backend that is absent, disabled, times
\* out or raises aborts no sibling: every invocation runs to its end, every
\* enabled backend of the list reaches its adapter, the slot of a failed
\* backend holds a string beginning with "Error:", every slot holds the
\* outcome of its own backend, and search returns the mapping, no exception.
C3_ErrorIsolation ==
    (phase = "returned" /\ Multiple) =>
        /\ result.kind = "dict"
        /\ \A i \in 1..Len(tasks) :
            /\ tasks[i].st = "done"
            /\ ~tasks[i].res.exc
            /\ Failed(i) => StartsWithError(tasks[i].res.val)
            /\ tasks[i].how = "ok" => tasks[i].res.val = <<"payload", tasks[i].name>>
            /\ tasks[i].how \in {"ok", "timeout", "raise"} <=> tasks[i].name \in EnabledNames(config)
            /\ IsLastOf(i) =>
                  \E k \in 1..Len(result.val) :
                      result.val[k].k = tasks[i].name /\ result.val[k].v = tasks[i].res.val
        /\ Len(adapter_log) =
              Cardinality({i \in 1..Len(tasks) : tasks[i].name \in EnabledNames(config)})

C3_Witness ==
    /\ phase = "returned"
    /\ Multiple
    /\ \E i, j, k \in 1..Len(tasks) :
        /\ tasks[i].how = "raise"
        /\ tasks[j].how = "disabled"
        /\ tasks[k].how = "ok"
        /\ i < j
        /\ j < k

\* C4: a single-backend search for a name that is not configured, or for a
\* disabled backend, returns a string beginning with "Error:" (not found /
\* disabled respectively), raises nothing and invokes no adapter.
C4_SingleUnavailable ==
    (Len(server_list) = 1 /\ server_list[1] \notin EnabledNames(config)) =>
        /\ adapter_log = <<>>
        /\ InFlight = 0
        /\ phase = "returned" =>
            /\ result.kind = "str"
            /\ StartsWithError(result.val)
            /\ result.val[Len(result.val)] =
                  IF server_list[1] \in ServerNames(config)
                  THEN "is disabled" ELSE "not found in configuration"

C4_Witness ==
    /\ phase = "returned"
    /\ server_list = <<"archive">>
    /\ result.kind = "str"

\* the explicit names that are configured and enabled, each as often as listed
Surviving == SelectSeqBy(servers_arg.list, EnabledNames(config))

\* C5 as stated: with an explicit backend list, only names of the list that
\* are configured and enabled are queried, and if no name survives that
\* filter exactly the default backend is queried.
C5_ManualFallsToDefault ==
    (phase = "returned" /\ servers_arg.given) =>
        /\ Range(adapter_log) \subseteq Range(servers_arg.list) \cap EnabledNames(config)
        /\ Surviving = <<>> => adapter_log = <<config.default_server>>

\* C5 amended: with an explicit backend list, the backends that search
\* queries are exactly the names of the list that are configured and enabled,
\* in list order; a name that is not configured or is disabled is not replaced
\* (its result is an "Error:" string), and if no name survives (also for an
\* empty list) no backend is queried at all, the default backend included.
C5_ManualOnlyListed ==
    (phase \in {"running", "returned"} /\ servers_arg.given) =>
        /\ Range(adapter_log) \subseteq Range(servers_arg.list) \cap EnabledNames(config)
        /\ phase = "returned" =>
            /\ adapter_log = Surviving
            /\ Len(tasks) = Len(servers_arg.list)
            /\ \A i \in 1..Len(tasks) :
                  /\ tasks[i].name = servers_arg.list[i]
                  /\ tasks[i].name \notin EnabledNames(config) =>
                        StartsWithError(tasks[i].res.val)

C5_Witness ==
    /\ phase = "returned"
    /\ servers_arg = [given |-> TRUE, list |-> <<"archive", "ghost">>]
    /\ adapter_log = <<>>

\* -------------------------------------------------- the adapters' properties
\* the server of the adapter specification
TheServer == config.servers[1]

NoCredential == TheServer.api_key \in {None, "", "${KEY}"}

\* C12 as stated: for every backend kind, a backend whose api_key is missing
\* or is an unresolved placeholder answers every search with a string
\* beginning with "Error:" and issues no network request.
C12_NoKeyNoRequestAnyKind ==
    NoCredential =>
        /\ adapter_log = <<>>
        /\ phase = "returned" => (result.kind = "str" /\ StartsWithError(result.val))

\* C12 amended: a backend of kind news or weather whose api_key is missing,
\* empty or an unresolved placeholder answers every search with a string
\* beginning with "Error:" and issues no network request, the credential being
\* tested before any request; an enabled backend of any other kind issues its
\* request whatever its api_key is.
C12_NoKeyNoRequestWhereRequired ==
    /\ (NoCredential /\ TheServer.type \in {"news", "weather"}) =>
          /\ adapter_log = <<>>
          /\ InFlight = 0
          /\ phase = "returned" => (result.kind = "str" /\ StartsWithError(result.val))
    /\ (phase = "returned" /\ TheServer.enabled /\ TheServer.type \notin {"news", "weather"}) =>
          adapter_log = <<TheServer.name>>

C12_Witness ==
    /\ phase = "returned"
    /\ TheServer.type = "weather"
    /\ TheServer.enabled
    /\ TheServer.api_key = "${KEY}"
    /\ tasks[1].how = "nokey"
    /\ StartsWithError(result.val)

\* --------------------------------------------------- the Router's properties
Rules == config.routing_rules

Matching == {r \in 1..Len(Rules) : TopicMatches(Rules[r].topic, query)}

\* the enabled backends that the matching rules list
MatchedEnabled ==
    {n \in EnabledNames(config) : \E r \in Matching : n \in Range(Rules[r].servers)}

\* where a name is first seen: rule order, then the order inside the rule
SeenAt(n) ==
    UNION {{r * 100 + p : p \in {x \in 1..Len(Rules[r].servers) : Rules[r].servers[x] = n}} :
           r \in Matching}

FirstSeen(n) == CHOOSE x \in SeenAt(n) : \A y \in SeenAt(n) : x <= y

NoDuplicates(s) == \A i, j \in 1..Len(s) : i # j => s[i] # s[j]

\* the enabled backends of fallback_servers, and where each comes first
FallbackEnabled == Range(config.fallback_servers) \cap EnabledNames(config)

FirstInFallback(n) ==
    CHOOSE i \in 1..Len(config.fallback_servers) :
        /\ config.fallback_servers[i] = n
        /\ \A j \in 1..(i - 1) : config.fallback_servers[j] # n

\* C6: auto selection is the first element of the multi selection for the
\* same query (the default backend when that is empty); a query matching a
\* rule that lists an enabled backend selects the first enabled backend of the
\* first such rule, and a query matching nothing with an empty fallback chain
\* selects the default backend.
C6_AutoIsHeadOfMulti ==
    phase = "auto" =>
        /\ auto_pick = IF selected = <<>> THEN config.default_server ELSE selected[1]
        /\ MatchedEnabled # {} =>
              \E r \in Matching : \E p \in 1..Len(Rules[r].servers) :
                  /\ Rules[r].servers[p] = auto_pick
                  /\ auto_pick \in EnabledNames(config)
                  /\ \A p2 \in 1..(p - 1) : Rules[r].servers[p2] \notin EnabledNames(config)
                  /\ \A r2 \in Matching :
                        r2 < r => Range(Rules[r2].servers) \cap EnabledNames(config) = {}
        /\ (Matching = {} /\ config.fallback_servers = <<>>) =>
              auto_pick = config.default_server

C6_Witness ==
    /\ phase = "auto"
    /\ Cardinality(Matching) = 2
    /\ Len(selected) = 2
    /\ auto_pick # config.default_server
    /\ auto_pick = selected[1]

\* C7 as stated: for a query in which a keyword of a routing-rule topic
\* occurs, multi selection returns exactly the enabled backends listed by
\* the matching rules, each once, in first-seen order, and is non-empty.
C7_MatchedRulesOnly ==
    (phase \in {"multi", "auto"} /\ Matching # {}) =>
        /\ Range(selected) = MatchedEnabled
        /\ NoDuplicates(selected)
        /\ selected # <<>>

\* C7 amended: for a query in which a keyword of a routing-rule topic occurs
\* and whose matching rules list at least one enabled backend, multi
\* selection returns exactly the enabled backends listed by the matching
\* rules, each once, in first-seen order, and is non-empty.
C7_MatchedEnabledInOrder ==
    (phase \in {"multi", "auto"} /\ MatchedEnabled # {}) =>
        /\ Range(selected) = MatchedEnabled
        /\ NoDuplicates(selected)
        /\ selected # <<>>
        /\ \A i, j \in 1..Len(selected) :
              i < j => FirstSeen(selected[i]) < FirstSeen(selected[j])

C7_Witness ==
    /\ phase = "multi"
    /\ Cardinality(Matching) = 2
    /\ selected = <<"web", "llm">>
    /\ Rules[1].servers = <<"web", "web">>
    /\ Rules[2].servers = <<"llm", "web">>

\* C8: for a query that contains no keyword of any routing-rule topic, multi
\* selection returns exactly the enabled subset of fallback_servers in
\* configured order, or exactly [default_server] when that subset is empty.
C8_FallbackWhenNoMatch ==
    (phase \in {"multi", "auto"} /\ Matching = {}) =>
        IF FallbackEnabled = {}
        THEN selected = <<config.default_server>>
        ELSE /\ Range(selected) = FallbackEnabled
             /\ NoDuplicates(selected)
             /\ \A i, j \in 1..Len(selected) :
                   i < j => FirstInFallback(selected[i]) < FirstInFallback(selected[j])

C8_Witness ==
    /\ phase = "multi"
    /\ Matching = {}
    /\ Rules # <<>>
    /\ query # <<>>
    /\ config.fallback_servers = <<"web", "llm">>
    /\ selected = <<"web", "llm">>
    /\ config.default_server = "llm"

\* --------------------------------------------------- the loader's properties
RawNames == {raw_config.servers[i].name : i \in 1..Len(raw_config.servers)}

RawDefault == IF raw_config.default_server = None THEN "llama-mcp" ELSE raw_config.default_server

\* the names a raw configuration refers to
RawReferences ==
    {RawDefault} \cup Range(raw_config.fallback_servers)
    \cup UNION {Range(raw_config.routing_rules[r].servers) :
                   r \in 1..Len(raw_config.routing_rules)}

\* C9: every configuration that loads has default_server, every
\* fallback_servers entry and every backend named in routing_rules present as
\* a key of servers, and loading a raw configuration that violates one of
\* these cross-references fails with a validation error.
C9_CrossReferencesResolve ==
    phase = "loaded" =>
        /\ load_result.status = "ok" =>
            /\ config.default_server \in ServerNames(config)
            /\ Range(config.fallback_servers) \subseteq ServerNames(config)
            /\ \A r \in 1..Len(config.routing_rules) :
                  Range(config.routing_rules[r].servers) \subseteq ServerNames(config)
        /\ (raw_config.has_servers /\ ~(RawReferences \subseteq RawNames)) =>
              load_result.status = "error"

\* C10: loading a configuration in which the kind of a backend (its "type"
\* field, or its name when "type" is absent) is not a server type fails with
\* a validation error.
C10_UnknownKindFails ==
    (phase = "loaded" /\
     \E i \in 1..Len(raw_config.servers) :
         (IF raw_config.servers[i].data.type = None
          THEN raw_config.servers[i].name
          ELSE raw_config.servers[i].data.type) \notin ServerType)
    => (load_result.status = "error" /\ config = NoConfig)

C10_Witness ==
    /\ phase = "loaded"
    /\ load_result.status = "error"
    /\ Len(load_result.errors) = 2
    /\ raw_config.servers =
         << [name |-> "ollama",
             data |-> [type |-> None, has_url |-> TRUE, api_key |-> None,
                       timeout |-> Absent, max_tokens |-> Absent, temperature |-> Absent,
                       context_length |-> Absent, max_results |-> Absent]],
            [name |-> "llama-mcp",
             data |-> [type |-> None, has_url |-> TRUE, api_key |-> "${KEY}",
                       timeout |-> Absent, max_tokens |-> Absent, temperature |-> Absent,
                       context_length |-> Absent, max_results |-> Absent]] >>
    /\ raw_config.default_server = "ollama"
    /\ raw_config.fallback_servers = <<>>
    /\ raw_config.routing_rules = <<>>

\* ------------------------------------------------ substitution specification
\* Contents over the characters of a placeholder and one more; the variable A
\* unset, or set to a plain text, to nothing, or to a text with a placeholder.
ContentChars == {"$", "{", "}", "A"}

Contents == SeqsUpTo(ContentChars, MaxContentLen)

Environs ==
    {NoEnviron} \cup
    {[set |-> TRUE, val |-> v] : v \in {<<"A">>, <<>>, <<"A", "$", "{", "A", "}">>}}

InitEnv ==
    /\ content \in Contents
    /\ environ \in Environs
    /\ once = <<>>
    /\ twice = <<>>
    /\ config = NoConfig
    /\ phase = "idle"
    /\ mode = None
    /\ query = <<>>
    /\ servers_arg = NoServers
    /\ server_list = <<>>
    /\ tasks = <<>>
    /\ result = NoResult
    /\ adapter_log = <<>>
    /\ selected = <<>>
    /\ auto_pick = None
    /\ raw_config = NoConfig
    /\ load_result = NoLoad
    /\ PipeUnused
    /\ ResearchUnused
    /\ PairUnused
    /\ SemUnused
    /\ HintsUnused

\* content = cls._replace_env_vars(content)
ReplaceEnvVars ==
    /\ phase = "idle"
    /\ once' = _replace_env_vars(content, environ)
    /\ phase' = "once"
    /\ UNCHANGED <<pipeVars, researchVars, pairVars, semVars, hintVars, config, mode, query, servers_arg, server_list, tasks, result,
                   adapter_log, selected, auto_pick, raw_config, load_result,
                   content, environ, twice>>

\* _replace_env_vars applied to its own result
ReplaceAgain ==
    /\ phase = "once"
    /\ twice' = _replace_env_vars(once, environ)
    /\ phase' = "twice"
    /\ UNCHANGED <<pipeVars, researchVars, pairVars, semVars, hintVars, config, mode, query, servers_arg, server_list, tasks, result,
                   adapter_log, selected, auto_pick, raw_config, load_result,
                   content, environ, once>>

NextEnv == ReplaceEnvVars \/ ReplaceAgain

SpecEnv == InitEnv /\ [][NextEnv]_vars

\* --------------------------------------------------- pipeline specification
\* One integration, with or without its step cache; process_research_query is
\* called again and again, one call at a time, with queries of which two
\* share their first 100 characters and a third differs from them in the
\* 100th; every stage may end well or raise.
Pad(n) == [i \in 1..n |-> "a"]

PipeQueries ==
    {Pad(KeyLen) \o <<"x">>, Pad(KeyLen) \o <<"y">>,
     Pad(KeyLen - 1) \o <<"b", "x">>, <<"a", "b">>}

StageOutcomes == {"ok", "raise"}

\* the first 100 characters of a query, under which last_attempt keeps how
\* the last call for such a query ended
First100(q) == [i \in 1..(IF Len(q) < 100 THEN Len(q) ELSE 100) |-> q[i]]

PipeKeys == {First100(q) : q \in PipeQueries}

InitPipe ==
    /\ enable_step_cache \in BOOLEAN
    /\ step_cache = [k \in {} |-> Null]
    /\ user_query = <<>>
    /\ analysis = Null
    /\ external_info = Null
    /\ stage_runs = <<>>
    /\ last_attempt = [k \in PipeKeys |-> NoAttempt]
    /\ config = NoConfig
    /\ phase = "idle"
    /\ mode = None
    /\ query = <<>>
    /\ servers_arg = NoServers
    /\ server_list = <<>>
    /\ tasks = <<>>
    /\ result = NoResult
    /\ adapter_log = <<>>
    /\ selected = <<>>
    /\ auto_pick = None
    /\ raw_config = NoConfig
    /\ load_result = NoLoad
    /\ EnvUnused
    /\ ResearchUnused
    /\ PairUnused
    /\ SemUnused
    /\ HintsUnused

\* process_research_query up to the try: the step results start as None or
\* as what the cache holds for the key
ProcessResearchQuery ==
    /\ phase = "idle"
    /\ \E q \in PipeQueries :
        /\ user_query' = q
        /\ analysis' = IF enable_step_cache
                        THEN CachedGet(step_cache, CacheKey(q), "analysis") ELSE Null
        /\ external_info' = IF enable_step_cache
                             THEN CachedGet(step_cache, CacheKey(q), "external_info")
                             ELSE Null
    /\ stage_runs' = <<>>
    /\ phase' = "looked_up"
    /\ UNCHANGED <<envVars, researchVars, pairVars, semVars, hintVars, config, mode, query, servers_arg, server_list, tasks, result,
                   adapter_log, selected, auto_pick, raw_config, load_result,
                   step_cache, enable_step_cache, last_attempt>>

\* step 1: the analysis, unless the cache gave one; it is cached
Analyze ==
    /\ phase = "looked_up"
    /\ IF analysis.some
       THEN UNCHANGED <<analysis, step_cache, stage_runs>>
       ELSE \E outcome \in StageOutcomes :
              /\ analysis' = Some(analyze_query_structure(user_query, outcome))
              /\ stage_runs' = Append(stage_runs, "analyze")
              /\ step_cache' =
                    IF enable_step_cache
                    THEN PutAnalysis(step_cache, CacheKey(user_query),
                                     analyze_query_structure(user_query, outcome))
                    ELSE step_cache
    /\ phase' = "analyzed"
    /\ UNCHANGED <<envVars, researchVars, pairVars, semVars, hintVars, config, mode, query, servers_arg, server_list, tasks, result,
                   adapter_log, selected, auto_pick, raw_config, load_result,
                   user_query, external_info, enable_step_cache, last_attempt>>

\* step 2: the gathering, unless the cache gave its text; the text is cached.
\* gather_information raising, or the entry missing at the assignment
\* (KeyError), ends the call in the except branch.
Gather ==
    /\ phase = "analyzed"
    /\ IF external_info.some
       THEN /\ phase' = "gathered"
            /\ UNCHANGED <<external_info, step_cache, stage_runs, result>>
       ELSE \E outcome \in StageOutcomes :
              /\ stage_runs' = Append(stage_runs, "gather")
              /\ IF outcome = "ok" /\
                    (enable_step_cache => CacheKey(user_query) \in DOMAIN step_cache)
                 THEN /\ external_info' = Some(GatheredText(analysis.v.search_terms))
                      /\ step_cache' =
                            IF enable_step_cache
                            THEN PutGathered(step_cache, CacheKey(user_query),
                                             GatheredText(analysis.v.search_terms))
                            ELSE step_cache
                      /\ phase' = "gathered"
                      /\ UNCHANGED result
                 ELSE /\ external_info' =
                            IF outcome = "ok"
                            THEN Some(GatheredText(analysis.v.search_terms))
                            ELSE external_info
                      /\ result' = FallbackResult(user_query, analysis, external_info')
                      /\ phase' = "returned"
                      /\ UNCHANGED step_cache
    /\ UNCHANGED <<envVars, researchVars, pairVars, semVars, hintVars, config, mode, query, servers_arg, server_list, tasks,
                   adapter_log, selected, auto_pick, raw_config, load_result,
                   user_query, analysis, enable_step_cache, last_attempt>>

\* step 3: the synthesis; on success the entry is deleted and the result
\* returned, on an exception the except branch returns the fallback result
Synthesize ==
    /\ phase = "gathered"
    /\ \E outcome \in StageOutcomes :
        IF outcome = "ok"
        THEN /\ result' = SynthesizedResult(user_query, external_info.v)
             /\ step_cache' =
                   IF enable_step_cache /\ CacheKey(user_query) \in DOMAIN step_cache
                   THEN ClearEntry(step_cache, CacheKey(user_query))
                   ELSE step_cache
        ELSE /\ result' = FallbackResult(user_query, analysis, external_info)
             /\ UNCHANGED step_cache
    /\ stage_runs' = Append(stage_runs, "synthesize")
    /\ phase' = "returned"
    /\ UNCHANGED <<envVars, researchVars, pairVars, semVars, hintVars, config, mode, query, servers_arg, server_list, tasks,
                   adapter_log, selected, auto_pick, raw_config, load_result,
                   user_query, analysis, external_info, enable_step_cache, last_attempt>>

\* the caller has the result; the integration is ready for the next call
AttemptEnds ==
    /\ phase = "returned"
    /\ last_attempt' = [last_attempt EXCEPT ![First100(user_query)] =
                            [query |-> user_query, kind |-> result.kind,
                             done |-> StagesDone(analysis, external_info)]]
    /\ user_query' = <<>>
    /\ analysis' = Null
    /\ external_info' = Null
    /\ stage_runs' = <<>>
    /\ result' = NoResult
    /\ phase' = "idle"
    /\ UNCHANGED <<envVars, researchVars, pairVars, semVars, hintVars, config, mode, query, servers_arg, server_list, tasks,
                   adapter_log, selected, auto_pick, raw_config, load_result,
                   step_cache, enable_step_cache>>

NextPipe == ProcessResearchQuery \/ Analyze \/ Gather \/ Synthesize \/ AttemptEnds

SpecPipe == InitPipe /\ [][NextPipe]_vars

\* ------------------------------------------------ the validator's properties
DataOf(i) == raw_config.servers[i].data

NumericFields == {"timeout", "max_tokens", "temperature", "context_length", "max_results"}

\* the servers whose api_key is still a placeholder
PlaceholderServers ==
    {i \in 1..Len(raw_config.servers) : DataOf(i).api_key = "${KEY}"}

\* a numeric field that is present and is not an acceptable number
BadNumber(i, f) ==
    /\ DataOf(i)[f].kind # "absent"
    /\ \/ DataOf(i)[f].kind \notin {"int", "float"}
       \/ DataOf(i)[f].v < 0
       \/ f = "temperature" /\ DataOf(i)[f].v > 2

\* a defect of server i other than a placeholder api_key
OtherServerDefect(i) ==
    \/ ~DataOf(i).has_url
    \/ (IF DataOf(i).type = None THEN raw_config.servers[i].name
        ELSE DataOf(i).type) \notin ServerType
    \/ \E f \in NumericFields : BadNumber(i, f)

OtherDefect ==
    \/ \E i \in 1..Len(raw_config.servers) : OtherServerDefect(i)
    \/ ~(RawReferences \subseteq RawNames)
    \/ raw_config.server_selection_strategy \notin RoutingStrategy \cup {None}

\* C11: a configuration whose only defects are api_keys still equal to an
\* unresolved placeholder loads, each such defect is a warning and each such
\* backend is in the loaded configuration; any other validation error (missing
\* url, bad kind, bad cross-reference, bad strategy, bad numeric field) makes
\* the load fail, warnings or not.
C11_OnlyPlaceholdersAreSoft ==
    (phase = "loaded" /\ raw_config.has_servers) =>
        /\ ~OtherDefect =>
              /\ load_result.status = "ok"
              /\ Len(load_result.warnings) = Cardinality(PlaceholderServers)
              /\ \A i \in PlaceholderServers :
                    raw_config.servers[i].name \in ServerNames(config)
        /\ OtherDefect => load_result.status = "error"

\* C15: every backend of a loaded configuration has a timeout that is an
\* integer greater than 0 and no negative numeric field, and a raw
\* configuration violating this fails to load.
C15_TimeoutPositiveInteger ==
    phase = "loaded" =>
        /\ load_result.status = "ok" =>
              \A s \in 1..Len(config.servers) :
                  /\ config.servers[s].timeout.kind = "int"
                  /\ config.servers[s].timeout.v > 0
                  /\ \A f \in NumericFields \ {"temperature"} : config.servers[s][f].v >= 0
        /\ (\E i \in 1..Len(raw_config.servers) :
                \/ /\ DataOf(i).timeout.kind # "absent"
                   /\ ~(DataOf(i).timeout.kind = "int" /\ DataOf(i).timeout.v > 0)
                \/ \E f \in NumericFields \ {"temperature"} : DataOf(i)[f].v < 0)
           => load_result.status = "error"

\* --------------------------------------------- the substitution's properties
\* s holds a placeholder: "${", a non-empty text without "}", then "}"
HasPlaceholder(s) ==
    \E i, j \in 1..Len(s) :
        /\ j > i + 2
        /\ s[i] = "$"
        /\ s[i + 1] = "{"
        /\ s[j] = "}"
        /\ \A k \in (i + 2)..(j - 1) : s[k] # "}"

\* the variable is unset, or its value is a non-empty text without the
\* characters of a placeholder
PlainValue(env) ==
    env.set => (env.val # <<>> /\ Range(env.val) \cap {"$", "{", "}"} = {})

\* C13 as stated: _replace_env_vars is idempotent for every content string
\* and every environment, and a content string with no placeholders is
\* returned unchanged.
C13_IdempotentAnyEnvironment ==
    /\ phase = "twice" => twice = once
    /\ (phase \in {"once", "twice"} /\ ~HasPlaceholder(content)) => once = content

\* C13 amended: _replace_env_vars is idempotent for every content string and
\* every environment in which the value of each set variable is non-empty and
\* holds none of the characters "$", "{", "}"; and a content string with no
\* placeholders is returned unchanged in every environment.
C13_IdempotentPlainValues ==
    /\ (phase = "twice" /\ PlainValue(environ)) => twice = once
    /\ (phase \in {"once", "twice"} /\ ~HasPlaceholder(content)) => once = content

C13_Witness ==
    /\ phase = "twice"
    /\ content = <<"$", "{", "A", "}", "$", "{">>
    /\ environ = [set |-> TRUE, val |-> <<"A">>]
    /\ once = <<"A", "$", "{">>
    /\ twice = once

RECURSIVE EveryOccurrence(_, _, _)
\* s from position i on with every occurrence of ${A} replaced by the value
\* of A when A is set, everything else as it is
EveryOccurrence(s, i, env) ==
    IF i > Len(s) THEN <<>>
    ELSE IF env.set /\ i + 3 <= Len(s) /\ SubSeq(s, i, i + 3) = <<"$", "{", "A", "}">>
    THEN env.val \o EveryOccurrence(s, i + 4, env)
    ELSE <<s[i]>> \o EveryOccurrence(s, i + 1, env)

\* C14: _replace_env_vars replaces every occurrence of ${NAME} whose variable
\* is set by the variable's value, leaves every occurrence whose variable is
\* unset as it is, and changes no text outside placeholders.
C14_EveryOccurrenceReplaced ==
    phase \in {"once", "twice"} => once = EveryOccurrence(content, 1, environ)

\* ------------------------------------------------- the pipeline's properties
\* the key of the query of the call that is running
KeyNow == First100(user_query)

\* how the last call for a query with the key of this one ended
LastHere == last_attempt[KeyNow]

\* a call is running, and the last call before it for a query with its key
\* was a call for q that ended in the except branch
RetryOfFailed(q) ==
    /\ enable_step_cache
    /\ phase # "idle"
    /\ LastHere.kind = "fallback"
    /\ LastHere.query = q

\* no stage whose result that last call held is run by this one
RerunsNothingDone == \A i \in 1..Len(stage_runs) : stage_runs[i] \notin LastHere.done

\* C16: after the analysis and then the gathered text have been stored for a
\* key, a lookup of the key returns both stored values; after the entry is
\* cleared a lookup of the key finds nothing; the entries of other keys are
\* not touched by any of this.
C16_StepCacheRoundTrip ==
    /\ [](enable_step_cache =>
            /\ phase = "gathered" =>
                  /\ KeyNow \in DOMAIN step_cache
                  /\ step_cache[KeyNow].analysis = analysis
                  /\ step_cache[KeyNow].external_info = external_info
            /\ (phase = "looked_up" /\ KeyNow \in DOMAIN step_cache) =>
                  /\ analysis = step_cache[KeyNow].analysis
                  /\ external_info = step_cache[KeyNow].external_info
            /\ (phase = "looked_up" /\ LastHere.kind = "synthesized") =>
                  /\ KeyNow \notin DOMAIN step_cache
                  /\ ~analysis.some
                  /\ ~external_info.some)
    /\ [][\A k \in DOMAIN step_cache :
             k # KeyNow => (k \in DOMAIN step_cache' /\ step_cache'[k] = step_cache[k])]_vars

C16_Witness ==
    /\ enable_step_cache
    /\ phase = "gathered"
    /\ stage_runs = <<"analyze", "gather">>
    /\ step_cache[KeyNow].external_info.some
    /\ \E k \in DOMAIN step_cache : k # KeyNow /\ step_cache[k].external_info.some

\* C17: with step caching enabled, when a call for q fails after some stages
\* completed, their results stay cached, and the next call for q runs neither
\* the analyzer nor the gathering for a cached stage: it starts with the
\* first stage that has no cached result.
C17_RetryResumes ==
    /\ (enable_step_cache /\ phase = "returned" /\ result.kind = "fallback") =>
          /\ KeyNow \in DOMAIN step_cache
          /\ analysis.some
          /\ step_cache[KeyNow].analysis = analysis
          /\ external_info.some => step_cache[KeyNow].external_info = external_info
    /\ RetryOfFailed(user_query) =>
          /\ RerunsNothingDone
          /\ phase \in {"analyzed", "gathered", "returned"} => analysis.some
          /\ stage_runs # <<>> =>
                stage_runs[1] = IF "gather" \in LastHere.done THEN "synthesize"
                                ELSE IF "analyze" \in LastHere.done THEN "gather"
                                ELSE "analyze"

C17_Witness ==
    /\ RetryOfFailed(user_query)
    /\ LastHere.done = {"analyze"}
    /\ phase = "returned"
    /\ stage_runs = <<"gather", "synthesize">>
    /\ result.kind = "fallback"

\* C18: whenever process_research_query returns the synthesized result, the
\* step cache holds no entry for the key of the query, whether the stages ran
\* in this call or came from the cache.
C18_NoEntryAfterSuccess ==
    (phase = "returned" /\ result.kind = "synthesized") => KeyNow \notin DOMAIN step_cache

C18_Witness ==
    /\ RetryOfFailed(user_query)
    /\ LastHere.done = {"analyze", "gather"}
    /\ phase = "returned"
    /\ stage_runs = <<"synthesize">>
    /\ result.kind = "synthesized"
    /\ DOMAIN step_cache # {}

\* the query an analysis was made for, read off its search term
AnalysisOrigin(a) ==
    IF a.query_type = "factual" THEN Tail(a.search_terms[1]) ELSE a.search_terms[1]

\* the query a gathered text was gathered for
TextOrigin(e) ==
    IF Len(e) > 1 /\ e[2] = "term:" THEN Tail(Tail(e)) ELSE Tail(e)

\* C19: the cache key is the first 100 characters of the query: a call never
\* holds an analysis or a gathered text made for a query that differs from
\* its own within the first 100 characters, and a call for a query that
\* shares its first 100 characters with the query of the failed call before
\* it reuses that call's cached stages, the two queries being equal or not.
C19_KeyIsFirst100 ==
    /\ (phase # "idle" /\ analysis.some) => First100(AnalysisOrigin(analysis.v)) = KeyNow
    /\ (phase # "idle" /\ external_info.some) => First100(TextOrigin(external_info.v)) = KeyNow
    /\ \A q \in PipeQueries :
          (RetryOfFailed(q) /\ First100(q) = KeyNow) => RerunsNothingDone

C19_Witness ==
    /\ enable_step_cache
    /\ phase = "returned"
    /\ LastHere.kind = "fallback"
    /\ LastHere.done = {"analyze", "gather"}
    /\ LastHere.query # user_query
    /\ Len(user_query) = 101
    /\ stage_runs = <<"synthesize">>
    /\ AnalysisOrigin(analysis.v) = LastHere.query

\* C20: process_research_query raises nothing to its caller: whichever stage
\* fails, with or without the step cache, it returns a result, and in the
\* fallback result main_topic, query_type, search_terms and external_info are
\* not None.
C20_AlwaysAResult ==
    phase = "returned" =>
        /\ result.kind \in {"synthesized", "fallback"}
        /\ result.kind = "fallback" =>
              /\ result.main_topic.some
              /\ result.query_type.some
              /\ result.search_terms.some
              /\ result.external_info.some
        /\ (stage_runs # <<>> /\ stage_runs[Len(stage_runs)] = "gather") =>
              result.kind = "fallback"

C20_Witness ==
    /\ ~enable_step_cache
    /\ phase = "returned"
    /\ result.kind = "fallback"
    /\ stage_runs = <<"analyze", "gather">>
    /\ analysis.v.query_type = "general"
    /\ result.external_info = Some(<<>>)
    /\ result.search_terms = Some(<<user_query>>)


\* -------------------------------------------------- gathering specification
\* One DSPyMCPIntegration; up to MaxGatherCalls gather_information calls are
\* made on it and run concurrently. Each call makes one task per limited term; a task
\* enters the semaphore, awaits mcp_client.search, leaves the semaphore.
\* q[i] is the place of task i: "pending" (created), "waiting" (queued in
\* acquire), "searching" (inside the block, search awaited), "done".
GatherCallers == 1..MaxGatherCalls

\* how an awaited mcp_client.search ends: a result, an "Error:" string, an
\* exception
SearchOutcomes == {"ok", "error", "raise"}

\* the tasks of call c that are at place p
TasksAt(c, p) == {i \in 1..Len(gather_calls[c].q) : gather_calls[c].q[i] = p}

\* the mcp_client.search calls in flight, over all gather_information calls
InFlightSearches ==
    {w \in GatherCallers \X (1..MaxMcpQueries) : w[2] \in TasksAt(w[1], "searching")}

InitGather ==
    /\ sem_value = MaxConcurrentQueries
    /\ sem_waiters = <<>>
    /\ gather_calls = [c \in GatherCallers |-> NoGather]
    /\ search_outcome = "none"
    /\ config = NoConfig
    /\ phase = "idle"
    /\ mode = None
    /\ query = <<>>
    /\ servers_arg = NoServers
    /\ server_list = <<>>
    /\ tasks = <<>>
    /\ result = NoResult
    /\ adapter_log = <<>>
    /\ selected = <<>>
    /\ auto_pick = None
    /\ EnvUnused
    /\ PipeUnused
    /\ ResearchUnused
    /\ PairUnused
    /\ HintsUnused
    /\ raw_config = NoConfig
    /\ load_result = NoLoad

\* what no step of gather_information touches
GatherFrame ==
    UNCHANGED <<envVars, researchVars, pairVars, hintVars, pipeVars, config, phase, mode, query, servers_arg,
                server_list, tasks, result, adapter_log, selected, auto_pick,
                raw_config, load_result>>

\* gather_information(search_terms, max_queries) up to its gather: the tasks
\* of the limited terms are created
GatherInformation ==
    /\ \E c \in GatherCallers, n_terms \in 0..MaxTerms, max_queries \in {0, 1} :
        /\ gather_calls[c].st = "idle"
        /\ gather_calls' = [gather_calls EXCEPT
               ![c] = [st |-> "running",
                       q |-> [i \in 1..LimitedTerms(n_terms, max_queries) |-> "pending"]]]
    /\ UNCHANGED <<sem_value, sem_waiters, search_outcome>>
    /\ GatherFrame

\* the first step of a task, in the order gather created the tasks of a call:
\* acquire takes a permit, or queues the task
QueryStart ==
    /\ \E c \in GatherCallers :
        /\ gather_calls[c].st = "running"
        /\ \E i \in 1..Len(gather_calls[c].q) :
            /\ gather_calls[c].q[i] = "pending"
            /\ \A j \in 1..(i - 1) : gather_calls[c].q[j] # "pending"
            /\ IF Locked(sem_value, sem_waiters)
               THEN /\ sem_waiters' = Append(sem_waiters, <<c, i>>)
                    /\ gather_calls' = [gather_calls EXCEPT ![c].q[i] = "waiting"]
                    /\ UNCHANGED sem_value
               ELSE /\ sem_value' = sem_value - 1
                    /\ gather_calls' = [gather_calls EXCEPT ![c].q[i] = "searching"]
                    /\ UNCHANGED sem_waiters
    /\ UNCHANGED search_outcome
    /\ GatherFrame

\* an awaited search ends; the task builds its result dict (in the try or in
\* the except branch) and leaves the block. release hands the permit to the
\* first queued task, which goes on to its search, or gives it back
SearchReturns ==
    /\ \E c \in GatherCallers, outcome \in SearchOutcomes :
        \E i \in 1..Len(gather_calls[c].q) :
            /\ gather_calls[c].q[i] = "searching"
            /\ search_outcome' = outcome
            /\ IF ~Releases(outcome)
               THEN /\ gather_calls' = [gather_calls EXCEPT ![c].q[i] = "done"]
                    /\ UNCHANGED <<sem_value, sem_waiters>>
               ELSE IF sem_waiters # <<>>
               THEN LET w == Head(sem_waiters)
                    IN  /\ gather_calls' = [gather_calls EXCEPT ![c].q[i] = "done",
                                                                ![w[1]].q[w[2]] = "searching"]
                        /\ sem_waiters' = Tail(sem_waiters)
                        /\ UNCHANGED sem_value
               ELSE /\ gather_calls' = [gather_calls EXCEPT ![c].q[i] = "done"]
                    /\ sem_value' = sem_value + 1
                    /\ UNCHANGED sem_waiters
    /\ GatherFrame

\* results = await asyncio.gather(...) has every result: the call returns
GatherReturns ==
    /\ \E c \in GatherCallers :
        /\ gather_calls[c].st = "running"
        /\ \A i \in 1..Len(gather_calls[c].q) : gather_calls[c].q[i] = "done"
        /\ gather_calls' = [gather_calls EXCEPT ![c].st = "returned"]
    /\ UNCHANGED <<sem_value, sem_waiters, search_outcome>>
    /\ GatherFrame

NextGather == GatherInformation \/ QueryStart \/ SearchReturns \/ GatherReturns

SpecGather == InitGather /\ [][NextGather]_vars

\* the event loop runs a task that can run (the first step of a task, the
\* return of a call whose gather is complete), and an awaited search ends
SpecGatherFair ==
    /\ SpecGather
    /\ WF_vars(QueryStart \/ SearchReturns \/ GatherReturns)

\* ------------------------------------------ concurrent pipeline specification
\* Two process_research_query invocations on one integration. An invocation
\* runs without a suspension from its call to 'await gather_information' (the
\* analyzer is called synchronously) and from the end of the gathering to its
\* return; the two invocations interleave at the gathering only.
PipeCallers == {1, 2}

InitPair ==
    /\ invocations = [c \in PipeCallers |-> NoInvocation]
    /\ enable_step_cache \in BOOLEAN
    /\ step_cache = [k \in {} |-> Null]
    /\ user_query = <<>>
    /\ analysis = Null
    /\ external_info = Null
    /\ stage_runs = <<>>
    /\ last_attempt = [k \in {} |-> NoAttempt]
    /\ config = NoConfig
    /\ phase = "idle"
    /\ mode = None
    /\ query = <<>>
    /\ servers_arg = NoServers
    /\ server_list = <<>>
    /\ tasks = <<>>
    /\ result = NoResult
    /\ adapter_log = <<>>
    /\ selected = <<>>
    /\ auto_pick = None
    /\ raw_config = NoConfig
    /\ load_result = NoLoad
    /\ EnvUnused
    /\ ResearchUnused
    /\ SemUnused
    /\ HintsUnused

\* step 3 and the return of invocation c, holding analysis a and text e, on
\* the cache as the earlier steps left it: the synthesis, then the deletion of
\* the entry and the result, or the except branch
SynthesizeAndReturn(c, a, e, cache, failed) ==
    \E outcome \in StageOutcomes :
        LET q == invocations[c].user_query
        IN  /\ invocations' = [invocations EXCEPT
                   ![c].pc = "returned",
                   ![c].analysis = a,
                   ![c].external_info = e,
                   ![c].failed = failed \/ outcome # "ok",
                   ![c].result = IF outcome = "ok" THEN SynthesizedResult(q, e.v)
                                 ELSE FallbackResult(q, a, e)]
            /\ step_cache' =
                  IF outcome = "ok" /\ enable_step_cache /\ CacheKey(q) \in DOMAIN cache
                  THEN ClearEntry(cache, CacheKey(q))
                  ELSE cache

\* what no step of the two invocations touches
PairFrame ==
    UNCHANGED <<envVars, researchVars, semVars, hintVars, config, phase, mode, query, servers_arg,
                server_list, tasks, result, adapter_log, selected, auto_pick,
                raw_config, load_result, user_query, analysis, external_info,
                enable_step_cache, stage_runs, last_attempt>>

\* process_research_query(q) from the call to the await of the gathering: the
\* lookup, step 1 and its cache write. With the gathered text in the cache the
\* invocation goes on to its return without a suspension.
InvocationStart ==
    /\ \E c \in PipeCallers, q \in PipeQueries, outcome \in StageOutcomes :
        LET key == CacheKey(q)
            a0 == IF enable_step_cache THEN CachedGet(step_cache, key, "analysis") ELSE Null
            e0 == IF enable_step_cache THEN CachedGet(step_cache, key, "external_info") ELSE Null
            a1 == IF a0.some THEN a0 ELSE Some(analyze_query_structure(q, outcome))
            cache1 == IF ~a0.some /\ enable_step_cache
                      THEN PutAnalysis(step_cache, key, a1.v) ELSE step_cache
            failed == ~a0.some /\ outcome # "ok"
            others == {d \in PipeCallers \ {c} : invocations[d].pc = "gathering"}
        IN  /\ invocations[c].pc = "idle"
            /\ a0.some => outcome = "ok"
            /\ IF e0.some
               THEN SynthesizeAndReturn(c, a1, e0, cache1, failed)
               ELSE /\ invocations' =
                          [d \in PipeCallers |->
                              IF d = c
                              THEN [NoInvocation EXCEPT !.pc = "gathering", !.user_query = q,
                                        !.analysis = a1, !.failed = failed,
                                        !.overlapped = others # {}]
                              ELSE IF d \in others
                              THEN [invocations[d] EXCEPT !.overlapped = TRUE]
                              ELSE invocations[d]]
                    /\ step_cache' = cache1
    /\ PairFrame

\* gather_information returns to invocation c or raises: the cache write of
\* step 2 (a KeyError when the entry is gone), step 3 and the return
InvocationResume ==
    /\ \E c \in PipeCallers, outcome \in StageOutcomes :
        LET q == invocations[c].user_query
            key == CacheKey(q)
            a == invocations[c].analysis
            e == Some(GatheredText(a.v.search_terms))
        IN  /\ invocations[c].pc = "gathering"
            /\ IF outcome # "ok"
               THEN /\ invocations' = [invocations EXCEPT
                          ![c].pc = "returned", ![c].failed = TRUE,
                          ![c].result = FallbackResult(q, a, Null)]
                    /\ UNCHANGED step_cache
               ELSE IF enable_step_cache /\ KeyError(step_cache, key)
               THEN /\ invocations' = [invocations EXCEPT
                          ![c].pc = "returned", ![c].external_info = e,
                          ![c].result = FallbackResult(q, a, e)]
                    /\ UNCHANGED step_cache
               ELSE SynthesizeAndReturn(c, a, e,
                        IF enable_step_cache THEN PutGathered(step_cache, key, e.v)
                        ELSE step_cache,
                        invocations[c].failed)
    /\ PairFrame

NextPair == InvocationStart \/ InvocationResume

SpecPair == InitPair /\ [][NextPair]_vars

\* -------------------------------------------------- routing hints (C21)
\* the records get_routing_hints is to list: the enabled servers, in the
\* order of config.servers
EnabledHints ==
    LET IsEnabled(s) == s.enabled
        on == SelectSeq(config.servers, IsEnabled)
    IN  [i \in 1..Len(on) |->
            [name |-> on[i].name, type |-> on[i].type,
             description |-> on[i].description,
             capabilities |-> on[i].capabilities, enabled |-> TRUE]]

\* C21: get_routing_hints is a read-only accessor: available_servers holds
\* exactly the enabled backends (with type, description and capabilities),
\* the value reports the routing-rule table, the three strategies and the
\* fallback chain, and the call leaves the configuration as it was.
C21_HintsListEnabledOnly ==
    /\ [](hints # NoHints =>
            /\ hints.available_servers = EnabledHints
            /\ hints.routing_rules = config.routing_rules
            /\ Range(hints.strategies) = RoutingStrategy
            /\ hints.fallback_servers = config.fallback_servers)
    /\ [][config' = config]_vars


\* ------------------------------------------------ shape of the result (C22)
\* C22: the shape of the value search returns follows the routing mode: a
\* mapping from backend name to result string when the MULTI strategy chose
\* the backends, a bare string when a single server is given or the AUTO
\* strategy chose.
C22_ShapeFollowsMode ==
    phase = "returned" =>
        /\ mode = "multi" => result.kind = "dict"
        /\ mode = "auto" => result.kind = "str"
        /\ (servers_arg.given /\ Len(servers_arg.list) = 1) => result.kind = "str"


\* ------------------------------------------- order of the result map (C23)
\* the first and the last place of a name in the requested list
FirstPlace(n) == CHOOSE i \in 1..Len(server_list) :
                     server_list[i] = n /\ \A j \in 1..(i - 1) : server_list[j] # n

LastPlace(n) == CHOOSE i \in 1..Len(server_list) :
                    server_list[i] = n /\ \A j \in (i + 1)..Len(server_list) : server_list[j] # n

\* C23: whatever the order in which the concurrent invocations of a
\* multi-backend search ended, the mapping returned has exactly the requested
\* names as keys, iterates them in the order in which they were requested,
\* and holds for each name the outcome of that backend's own invocation (of
\* its last one, when the name was requested more than once).
C23_OwnOutcomeRequestedOrder ==
    (phase = "returned" /\ result.kind = "dict") =>
        LET keys == DictKeys(result.val)
        IN  /\ Range(keys) = Range(server_list)
            /\ \A a, b \in 1..Len(keys) :
                  a < b => /\ keys[a] # keys[b]
                           /\ FirstPlace(keys[a]) < FirstPlace(keys[b])
            /\ \A a \in 1..Len(keys) :
                  LET t == tasks[LastPlace(keys[a])]
                  IN  /\ t.name = keys[a]
                      /\ result.val[a].v = t.res.val
                      /\ keys[a] \in Range(result.val[a].v)
                      /\ t.how = "ok" => result.val[a].v = <<"payload", keys[a]>>
                      /\ t.how = "timeout" => result.val[a].v = <<"Error:", "Timeout", keys[a]>>

\* three invocations for two names have ended; the one requested first ended
\* with a payload, the one requested last for the same name with a timeout
C23_Witness ==
    /\ phase = "returned"
    /\ server_list = <<"web", "llm", "web">>
    /\ tasks[1].how = "ok"
    /\ tasks[2].how = "raise"
    /\ tasks[3].how = "timeout"
    /\ DictKeys(result.val) = <<"web", "llm">>


\* ------------------------------------------------------ cancellation (C24)
\* C24: when one in-flight invocation of a multi-backend search is cancelled,
\* its siblings are not cancelled: they run to their end, and the mapping
\* returned holds a string for every requested backend, an "Error:" string
\* for the cancelled one.
C24_CancelledSlotIsErrorString ==
    (phase = "returned" /\ result.kind = "dict") =>
        /\ \A i \in 1..Len(tasks) : tasks[i].st = "done"
        /\ Range(DictKeys(result.val)) = Range(server_list)
        /\ \A a \in 1..Len(result.val) :
              LET t == tasks[LastPlace(result.val[a].k)]
              IN  /\ result.val[a].v # CancelledError
                  /\ t.how = "cancelled" => StartsWithError(result.val[a].v)
                  /\ t.how = "ok" => result.val[a].v = <<"payload", t.name>>


\* ------------------------------------- the semaphore's properties (C25, C26)
\* C25: at every moment at most max_concurrent_queries (3) mcp_client.search
\* calls of gather_information are in flight, counted over all the
\* gather_information calls that run concurrently on the integration.
C25_InFlightWithinSemaphore ==
    Cardinality(InFlightSearches) <= MaxConcurrentQueries

\* three searches in flight, from two calls, and a fourth task kept waiting
C25_Witness ==
    /\ Cardinality(InFlightSearches) = MaxConcurrentQueries
    /\ TasksAt(1, "searching") # {}
    /\ TasksAt(2, "searching") # {}
    /\ sem_waiters # <<>>

\* C26: the semaphore leaks no permit: every task that acquired it releases
\* it, whether its search returned a result, returned an error or raised; so
\* the free permits and the searches in flight always add up to the initial
\* value, all permits are free when no call is in flight, and, every search
\* ending, every queued task comes to run and every call returns.
C26_NoPermitLeak ==
    /\ [](sem_value + Cardinality(InFlightSearches) = MaxConcurrentQueries)
    /\ []((\A c \in GatherCallers : gather_calls[c].st # "running")
             => sem_value = MaxConcurrentQueries /\ sem_waiters = <<>>)
    /\ \A c \in GatherCallers :
          (gather_calls[c].st = "running") ~> (gather_calls[c].st = "returned")
    /\ (sem_waiters # <<>>) ~> (sem_waiters = <<>>)

\* a search has raised while a task was queued, and the queue has emptied and
\* every permit is back
C26_Witness ==
    /\ search_outcome = "raise"
    /\ sem_value = MaxConcurrentQueries
    /\ \E c \in GatherCallers :
          /\ gather_calls[c].st = "returned"
          /\ Len(gather_calls[c].q) = MaxMcpQueries
    /\ \E c \in GatherCallers :
          /\ gather_calls[c].st = "returned"
          /\ Len(gather_calls[c].q) = 1
    /\ \A c \in GatherCallers : gather_calls[c].st = "returned"


\* ------------------------------------- concurrent invocations, one key (C27)
\* both invocations have returned, they were in flight together, their
\* queries have the same key, and no stage of either failed
PairDoneUnfailed ==
    /\ \A c \in PipeCallers :
          /\ invocations[c].pc = "returned"
          /\ invocations[c].overlapped
          /\ ~invocations[c].failed
    /\ CacheKey(invocations[1].user_query) = CacheKey(invocations[2].user_query)

Synthesized == {c \in PipeCallers : invocations[c].result.kind = "synthesized"}

\* C27: two invocations whose queries share the key, in flight concurrently,
\* no stage of either failing, both return the synthesized result, and no
\* cache entry of the key remains once both have returned.
C27_BothSynthesized ==
    PairDoneUnfailed =>
        /\ Synthesized = PipeCallers
        /\ CacheKey(invocations[1].user_query) \notin DOMAIN step_cache

\* C27 as amended: neither invocation raises and no cache entry of the key
\* remains once both have returned; without the step cache both return the
\* synthesized result; with it, exactly one of them returns the synthesized
\* result and the other ends on the fallback path, with its analysis and its
\* gathered text in the result.
C27_FirstSynthesizedOtherFallsBack ==
    PairDoneUnfailed =>
        /\ CacheKey(invocations[1].user_query) \notin DOMAIN step_cache
        /\ ~enable_step_cache => Synthesized = PipeCallers
        /\ enable_step_cache =>
              /\ Cardinality(Synthesized) = 1
              /\ \A c \in PipeCallers \ Synthesized :
                    /\ invocations[c].result.kind = "fallback"
                    /\ invocations[c].result.external_info =
                          Some(GatheredText(invocations[c].analysis.v.search_terms))
                    /\ invocations[c].result.main_topic.some

\* two queries that differ in the 101st character only, in flight together
\* with the step cache on, have both returned
C27_Witness ==
    /\ PairDoneUnfailed
    /\ enable_step_cache
    /\ invocations[1].user_query # invocations[2].user_query
    /\ invocations[2].result.kind = "synthesized"


\* ------------------------------------------- what the step cache keeps (C28)
\* the keys whose latest finished attempt ended on the fallback path
FailedKeys == {k \in PipeKeys : last_attempt[k].kind = "fallback"}

\* C28: with the attempts made one at a time, whenever none is in flight the
\* step cache has an entry for a key only if the latest attempt for the key
\* ended on the fallback path with its analysis cached; an entry always holds
\* an analysis, and holds gathered text only together with an analysis; only
\* a successful attempt for the same key removes an entry; so the entries are
\* never more than the keys whose latest attempt failed.
C28_EntriesOnlyOfFailedKeys ==
    /\ [](phase = "idle" =>
            /\ \A k \in DOMAIN step_cache :
                  /\ k \in FailedKeys
                  /\ "analyze" \in last_attempt[k].done
                  /\ CacheKey(last_attempt[k].query) = k
            /\ Cardinality(DOMAIN step_cache) <= Cardinality(FailedKeys))
    /\ [](\A k \in DOMAIN step_cache :
            /\ step_cache[k].analysis.some
            /\ step_cache[k].external_info.some => step_cache[k].analysis.some)
    /\ [][\A k \in DOMAIN step_cache \ DOMAIN step_cache' :
             /\ phase' = "returned"
             /\ result'.kind = "synthesized"
             /\ CacheKey(user_query) = k]_vars

\* two keys have their entries after failed attempts, one with its gathered
\* text, and the third key's entry is gone after its attempt succeeded on a
\* retry
C28_Witness ==
    /\ phase = "idle"
    /\ Cardinality(DOMAIN step_cache) = 2
    /\ \E k \in DOMAIN step_cache : step_cache[k].external_info.some
    /\ \E k \in DOMAIN step_cache : ~step_cache[k].external_info.some
    /\ \E k \in PipeKeys \ DOMAIN step_cache :
          /\ last_attempt[k].kind = "synthesized"
          /\ last_attempt[k].done = {"analyze", "gather"}


\* ------------------------------------- rules that list no usable backend (C29)
\* the configured backends that are switched on, read off the server table
Usable == {config.servers[i].name : i \in {j \in 1..Len(config.servers) : config.servers[j].enabled}}

\* the names the matching rules list
MatchedListed == UNION {Range(Rules[r].servers) : r \in Matching}

\* C29: when a keyword of a routing rule occurs in the query but every
\* backend the matching rules list is disabled or not configured, multi
\* selection is what it is when no rule matches, the enabled subset of
\* fallback_servers in configured order or [default_server] when that subset
\* is empty; and every name of a multi selection is a configured, enabled
\* backend unless the selection is exactly [default_server].
C29_UnusableRulesFallBack ==
    phase \in {"multi", "auto"} =>
        /\ (Matching # {} /\ MatchedListed \cap Usable = {}) =>
              IF Range(config.fallback_servers) \cap Usable = {}
              THEN selected = <<config.default_server>>
              ELSE /\ Range(selected) = Range(config.fallback_servers) \cap Usable
                   /\ NoDuplicates(selected)
                   /\ \A i, j \in 1..Len(selected) :
                         i < j => FirstInFallback(selected[i]) < FirstInFallback(selected[j])
        /\ \/ selected = <<config.default_server>>
           \/ \A i \in 1..Len(selected) : selected[i] \in Usable

\* both rules match and list the disabled default backend only; the selection
\* is the enabled backend of the fallback list
C29_Witness ==
    /\ phase = "multi"
    /\ Cardinality(Matching) = 2
    /\ MatchedListed = {"llm"}
    /\ Usable = {"web"}
    /\ Len(config.servers) = 2
    /\ config.fallback_servers = <<"llm", "web">>
    /\ selected = <<"web">>


\* -------------------------------------------- what research reports (C30)
\* C30: for every call of research, metadata.servers_used of the result is
\* exactly the list of the backends the client queried for the call, under
\* auto, manual and multi routing alike.
C30_ServersUsedAreQueried ==
    phase = "researched" => Range(servers_used) = Range(server_list)

====
